---- MODULE Spec2Model ----
(***************************************************************************)
(* Verification model of the agentic session runner                        *)
(* (components/runners/claude-code-runner/main.py).                        *)
(*                                                                         *)
(* One process runs one session: run_agentic_session picks a handler from  *)
(* the configuration, the handler reports Running, runs the inference      *)
(* stream (_run_claude_code) and reports Completed; any Exception reaches   *)
(* the except clause of run_agentic_session, which reports Failed and      *)
(* exits 1.  The stream loop turns the engine's blocks into the list       *)
(* all_messages and sends the whole list with a Running status report      *)
(* after every stream message that has content.                            *)
(*                                                                         *)
(* Text is a sequence of one-character strings, so that strip() and the    *)
(* truncation of tool results are computed, not assumed.  Python dicts are *)
(* records whose DOMAIN is the set of keys present.                        *)
(***************************************************************************)
EXTENDS Integers, Sequences, FiniteSets, TLC

\* ---------------------------------------------------------------- bounds
\* Blocks the inference engine emits in one run, over all stream messages.
MaxBlocks == 3
\* How far below and above the cap the lengths of tool output go.
CapMargin == 12
\* Entries under the local working directory at push time.
MaxFiles == 3
\* Requests served concurrently by the one workflow instance.
MaxRequests == 2

\* ------------------------------------------------------- program constants
\* Tool-result content longer than this is cut (main.py line 405).
TruncCap == 5000
\* Characters added per simulated streaming event (agents.py line 56).
chunk_size == 50

TruncMarker ==
  << "\n", "\n", "[", "C", "o", "n", "t", "e", "n", "t", " ", "t", "r", "u",
     "n", "c", "a", "t", "e", "d", " ", "-", " ", "f", "u", "l", "l", " ",
     "c", "o", "n", "t", "e", "n", "t", " ", "a", "v", "a", "i", "l", "a",
     "b", "l", "e", " ", "i", "n", " ", "l", "o", "g", "s", "]" >>

\* Marks "no value": dict.get on a missing key, no exception in flight.
None == "<None>"

\* ------------------------------------------------------------ text helpers
IsSpace(c) == c \in {" ", "\n", "\t"}

RECURSIVE LStrip(_)
LStrip(s) ==
  IF s = << >> THEN s
  ELSE IF IsSpace(Head(s)) THEN LStrip(Tail(s)) ELSE s

RECURSIVE RStrip(_)
RStrip(s) ==
  IF s = << >> THEN s
  ELSE IF IsSpace(s[Len(s)]) THEN RStrip(SubSeq(s, 1, Len(s) - 1)) ELSE s

\* str.strip()
Strip(s) == RStrip(LStrip(s))

\* "".join(list of texts)
RECURSIVE JoinAll(_)
JoinAll(texts) ==
  IF texts = << >> THEN << >> ELSE Head(texts) \o JoinAll(Tail(texts))

\* a mutation of Truncate: content of exactly the cap's length is cut as well
TruncateFromCap(content) ==
  IF Len(content) >= TruncCap
    THEN SubSeq(content, 1, TruncCap) \o TruncMarker
    ELSE content

\* content[:5000] + marker when len(content) > 5000
Truncate(content) ==
  IF Len(content) > TruncCap
    THEN SubSeq(content, 1, TruncCap) \o TruncMarker
    ELSE content

\* ---------------------------------------------------------- stream inputs
ToolIds == {"t1", "t2"}
Texts == { << " " >>, << "l", "o", " " >>, << "H", "e", "l" >> }
\* what a tool returns: its output, or an error with no output
Outcomes ==
  { [content |-> << "3", " ", "m" >>, is_error |-> FALSE],
    [content |-> << >>, is_error |-> TRUE] }

TextBlocks == [text : Texts]
\* block.input is a JSON-serialisable dict, or an object json.dumps rejects (the
\* id of such a block never reaches the log, so one id stands for all)
ToolUseBlocks ==
  [id : ToolIds, name : {"grep"}, input : {"q_x"}]
    \cup [id : {"t1"}, name : {"grep"}, input : {"unserializable"}]
ToolResultBlocks ==
  { [tool_use_id |-> id, content |-> o.content, is_error |-> o.is_error] :
      id \in ToolIds, o \in Outcomes }
Blocks == TextBlocks \cup ToolUseBlocks \cup ToolResultBlocks

\* hasattr(block, ...) dispatch of the loop body
IsText(b) == "text" \in DOMAIN b
IsToolUse(b) == ~IsText(b) /\ {"id", "name", "input"} \subseteq DOMAIN b
IsToolResult(b) ==
  ~IsText(b) /\ ~IsToolUse(b) /\ {"tool_use_id", "content"} \subseteq DOMAIN b

\* json.dumps(block.input) if block.input else "{}"; json.dumps raises TypeError
\* on an object it cannot serialise.
JsonDumpsRaises(b) == IsToolUse(b) /\ b.input = "unserializable"
ToolInput(input) == IF input = "none" THEN "{}" ELSE "{\"q\": \"x\"}"

\* ------------------------------------------------------------ message log
\* dict.get(key)
Get(msg, key) == IF key \in DOMAIN msg THEN msg[key] ELSE None
\* d[key] = value
SetKey(msg, key, value) == (key :> value) @@ msg

\* a mutation of TextMessage: the text is stored as it came
TextMessageUnstripped(text) == [content |-> text]

\* message_obj = {"content": text.strip()}, line 364
TextMessage(text) == [content |-> Strip(text)]
ToolUseMessage(b) ==
  [tool_use_id |-> b.id, tool_use_name |-> b.name, tool_use_input |-> ToolInput(b.input)]
StandaloneResult(b) ==
  [content |-> Truncate(b.content), tool_use_id |-> b.tool_use_id,
   tool_use_is_error |-> b.is_error]

\* a mutation of Unfilled: the test for an earlier result is left out
UnfilledIgnoringContent(msg, id) == Get(msg, "tool_use_id") = id

\* the test of the pairing loop, lines 420-424
Unfilled(msg, id) == Get(msg, "tool_use_id") = id /\ "content" \notin DOMAIN msg

\* a mutation of FindToolUse: the list is walked from its start
FindToolUseOldest(log, id) ==
  LET hits == { i \in 1..Len(log) : Unfilled(log[i], id) }
  IN IF hits = {} THEN 0 ELSE CHOOSE i \in hits : \A j \in hits : i <= j

\* for i, existing_msg in enumerate(reversed(all_messages)): the first hit of the
\* reversed walk is the highest index; 0 when the loop runs to its else branch.
FindToolUse(log, id) ==
  LET hits == { i \in 1..Len(log) : Unfilled(log[i], id) }
  IN IF hits = {} THEN 0 ELSE CHOOSE i \in hits : \A j \in hits : j <= i

FillToolUse(log, idx, b) ==
  [log EXCEPT ![idx] =
     SetKey(SetKey(@, "content", Truncate(b.content)), "tool_use_is_error", b.is_error)]

\* a mutation of AppendMsg: the message is put at the head of the list
PrependMsg(log, m) == << m >> \o log

\* all_messages.append(message_obj)
AppendMsg(log, m) == Append(log, m)

\* a mutation of CreatesMessage: the else of the pairing loop runs for every result
CreatesMessageForEveryResult(log, b) ==
  \/ IsText(b) /\ Strip(b.text) # << >>
  \/ IsToolUse(b)
  \/ IsToolResult(b)

\* whether message_obj is set when line 442 is reached: a text that is not blank,
\* a tool use, or a tool result the pairing loop found no place for
CreatesMessage(log, b) ==
  \/ IsText(b) /\ Strip(b.text) # << >>
  \/ IsToolUse(b)
  \/ IsToolResult(b) /\ FindToolUse(log, b.tool_use_id) = 0

MessageObj(b) ==
  IF IsText(b) THEN TextMessage(b.text)
  ELSE IF IsToolUse(b) THEN ToolUseMessage(b)
  ELSE StandaloneResult(b)

\* all_messages after one block of the loop body has been handled
HandleBlock(log, b) ==
  IF CreatesMessage(log, b) THEN AppendMsg(log, MessageObj(b))
  ELSE IF IsToolResult(b) THEN FillToolUse(log, FindToolUse(log, b.tool_use_id), b)
  ELSE log

\* result selection after the loop, lines 468-479: the last text that is not
\* blank, stripped; else the stripped join of all texts (empty when none is left)
LastNonBlank(texts) ==
  LET idx == { i \in 1..Len(texts) : Strip(texts[i]) # << >> }
  IN IF idx = {} THEN << >>
     ELSE Strip(texts[CHOOSE i \in idx : \A j \in idx : j <= i])

FinalResult(texts) ==
  IF LastNonBlank(texts) # << >> THEN LastNonBlank(texts) ELSE Strip(JoinAll(texts))

\* ----------------------------------------------------------- configuration
\* AGENT_PERSONA, WORKFLOW_PHASE, WEBSITE_URL and what detect_spek_kit_command
\* makes of PROMPT ("" when the prompt is no spek-kit command)
Configs ==
  { [agent_persona |-> "PM", workflow_phase |-> "plan", spek_command |-> "",
     website_url |-> ""],
    [agent_persona |-> "", workflow_phase |-> "", spek_command |-> "specify",
     website_url |-> "acme.com"],
    [agent_persona |-> "", workflow_phase |-> "", spek_command |-> "",
     website_url |-> "acme.com"] }

\* ------------------------------------------------------------------- state
VARIABLES
  pc,               \* position of the session in run_agentic_session and below
  config,           \* the runner's fields read from the environment
  all_messages,     \* the message log of _run_claude_code
  response_text,    \* every text block's text, in arrival order
  pending,          \* number of blocks of the current stream message not yet handled
  result,           \* the final text _run_claude_code returns
  exc,              \* message of the exception in flight, None when there is none
  exitCode,         \* the process's exit status, -1 while it runs
  reports,          \* every status update handed to update_session_status, in order
  flushState,       \* history: how the backend answered the status updates
  events,           \* history: the blocks the loop body has taken, in arrival order
  origin,           \* history: for each log message, the index in events of its block
  dropped_text,     \* history: a block skipped since the last non-blank text was
                    \* read held non-blank text
  interrupted,      \* history: the run was ended by KeyboardInterrupt
  \* the tool-result branch of the loop body, taken on its own (SpecTruncate)
  trunc_pc,         \* "idle", "block" (a tool result is at hand) or "stored"
  trunc_block,      \* the tool-result block at hand
  trunc_messages,   \* the message log the block is handled against
  \* the workspace push (SpecPush)
  push_pc,          \* "idle", "walk" or "done"
  remote_root,      \* the remote workspace path, "" when unset
  local_files,      \* the entries under the local working directory, in walk order
  visited,          \* how many of the entries the walk has passed
  write_attempts,   \* the RemoteStore writes made, in order
  remote_store,     \* what the remote workspace holds
  \* the workspace-exec MCP server (SpecMcp)
  mcp_pc,           \* "idle", "handling", "exec" (awaiting execute_command) or "done"
  request,          \* the JSON-RPC request at hand, << >> when there is none
  exec_results,     \* what execute_command returned for the request, if it ran
  responses,        \* what handle_mcp_request returned: << >> for None
  pod_name,         \* POD_NAME of the environment, "" when unset
  exec_mode,        \* EXEC_MODE of the environment
  workspace_pid,    \* the global WORKSPACE_PID, 0 for None
  proc,             \* the subprocess of the command at hand
  \* safe_prediction.py (SpecPredict)
  pred_pc,          \* "idle", "llm", "validate", "except", "returned" or "raised"
  pred_call,        \* the call at hand: function, output_cls, persona
  log_level,        \* lowest level the module's logger handles
  response,         \* what the LLM returned, or the response handed to validation
  error_msg,        \* error_msg of safe_structured_predict
  pred_ret,         \* the instance returned, if one was
  valid_ret,        \* the boolean validate_structured_response returned
  pred_raised,      \* the exception that left the call, "" when none did
  yielded,          \* events stream_structured_predict_with_events has yielded
  \* services/mcp_service.py and health_check.py (SpecService)
  svc_connected,    \* RFEBuilderMCPService._connected
  svc_call,         \* the operation called last, "" before the first call
  svc_ret,          \* the dict the last call returned, if it was a search or
                    \* get_contextual_data_for_rfe
  health_ret,       \* the health_data the last call returned, if it was
                    \* get_system_health
  svc_status,       \* RFEBuilderMCPService._connection_status
  svc_args,         \* history: what the last get_contextual_data_for_rfe or
                    \* close was given and met
  \* rfe_builder_workflow.py (SpecWorkflow)
  wf_req,           \* each request's run: position, routing event, event payload
  artifacts_generated,  \* RFEBuilderWorkflow.artifacts_generated
  session_artifacts,    \* keys of RFEBuilderWorkflow.session_artifacts
  mcp_enabled,      \* RFEBuilderWorkflow.mcp_enabled
  \* main() of the runner (SpecMain)
  env,              \* the process environment main() and ClaudeRunner read
  \* langgraph-wrapper/runner/server.py (SpecGraph)
  _graph,           \* whether the graph is loaded
  _run_id,          \* the global run id, "" for None
  _stream_task,     \* index in tasks of the global stream task, 0 for None
  tasks,            \* every stream_graph task created: its run_id argument, position
  emitted,          \* per task, the events it handed to the backend, in order
  stop_call,        \* the /stop request in flight: position and the task it awaits
  http,             \* endpoint and status of the last response
  stopped           \* history: /stop has returned and no /start or /resume since

truncVars == << trunc_pc, trunc_block, trunc_messages >>
pushVars == << push_pc, remote_root, local_files, visited, write_attempts, remote_store >>
execVars == << pod_name, exec_mode, workspace_pid, proc >>
mcpVars == << mcp_pc, request, exec_results, responses, execVars >>
predVars ==
  << pred_pc, pred_call, log_level, response, error_msg, pred_ret, valid_ret, pred_raised,
     yielded >>
svcVars == << svc_connected, svc_call, svc_ret, health_ret, svc_status, svc_args >>
wfVars == << wf_req, artifacts_generated, session_artifacts, mcp_enabled >>
mainVars == << env >>
graphVars == << _graph, _run_id, _stream_task, tasks, emitted, stop_call, http, stopped >>
otherVars ==
  << truncVars, pushVars, mcpVars, predVars, svcVars, wfVars, mainVars, graphVars >>
runnerVars ==
  << pc, config, all_messages, response_text, pending, result, exc, exitCode,
     reports, flushState, events, origin, dropped_text, interrupted >>
vars == << runnerVars, otherVars >>

streamVars == << all_messages, response_text, pending, events, origin, dropped_text >>
statusVars == << reports, flushState >>

TruncIdle ==
  /\ trunc_pc = "idle"
  /\ trunc_block = [tool_use_id |-> "t1", content |-> << >>, is_error |-> FALSE]
  /\ trunc_messages = << >>
PushIdle ==
  /\ push_pc = "idle"
  /\ remote_root = ""
  /\ local_files = << >>
  /\ visited = 0
  /\ write_attempts = << >>
  /\ remote_store = {}
\* no subprocess has been started
NoProc ==
  [state |-> "none", returncode |-> 0, stdout |-> << >>, stderr |-> << >>, waited |-> FALSE]
McpIdle ==
  /\ mcp_pc = "idle"
  /\ request = << >>
  /\ exec_results = << >>
  /\ responses = << >>
  /\ pod_name = ""
  /\ exec_mode = "kubectl"
  /\ workspace_pid = 0
  /\ proc = NoProc
NoCall == [fn |-> "", output_cls |-> "", persona |-> ""]
PredIdle ==
  /\ pred_pc = "idle"
  /\ pred_call = NoCall
  /\ log_level = "WARNING"
  /\ response = << >>
  /\ error_msg = ""
  /\ pred_ret = << >>
  /\ valid_ret = << >>
  /\ pred_raised = ""
  /\ yielded = << >>
SvcIdle ==
  /\ svc_connected = FALSE
  /\ svc_call = ""
  /\ svc_ret = << >>
  /\ health_ret = << >>
  /\ svc_status = << >>
  /\ svc_args = << >>
WfIdle ==
  /\ wf_req = << >>
  /\ artifacts_generated = FALSE
  /\ session_artifacts = { }
  /\ mcp_enabled = FALSE
\* the environment of a standard session
StandardEnv ==
  [AGENTIC_SESSION_NAME |-> "session-1", PROMPT |-> "Analyze the pricing page",
   ANTHROPIC_API_KEY |-> "sk-test", AGENT_PERSONA |-> "", WORKFLOW_PHASE |-> "",
   WEBSITE_URL |-> "acme.com"]
MainIdle == env = StandardEnv
NoStop == [pc |-> "idle", task |-> 0]
NoResponse == [endpoint |-> "", status |-> 0]
GraphIdle ==
  /\ _graph = FALSE
  /\ _run_id = ""
  /\ _stream_task = 0
  /\ tasks = << >>
  /\ emitted = << >>
  /\ stop_call = NoStop
  /\ http = NoResponse
  /\ stopped = FALSE
OthersIdle ==
  /\ TruncIdle /\ PushIdle /\ McpIdle /\ PredIdle /\ SvcIdle /\ WfIdle /\ MainIdle
  /\ GraphIdle

Init ==
  /\ OthersIdle
  /\ pc = "start"
  /\ config \in Configs
  /\ all_messages = << >>
  /\ response_text = << >>
  /\ pending = 0
  /\ result = << >>
  /\ exc = None
  /\ exitCode = -1
  /\ reports = << >>
  /\ flushState = "none"
  /\ events = << >>
  /\ origin = << >>
  /\ dropped_text = FALSE
  /\ interrupted = FALSE

\* session type chosen at lines 149-160
Handler ==
  IF config.agent_persona # "" /\ config.workflow_phase # "" THEN "agent"
  ELSE IF config.spek_command # "" THEN "spek"
  ELSE "standard"

\* ---------------------------------------------------------- status reports
NextFlushState(cur, ok) ==
  IF ~ok THEN "failed"
  ELSE IF cur = "failed" THEN "ok_after_failed" ELSE "ok"

\* update_session_status: the PUT is made; a non-200 answer, a timeout or any
\* exception is logged and swallowed, so the caller goes on either way.
\* a mutation of ReturnsToCaller: a failed update is raised to the caller
ReturnsToCallerOrRaises(ok, next) ==
  IF ok \/ next = "exited" THEN next ELSE "except"

\* lines 761-770: "Don't raise here as this shouldn't stop the main process";
\* the caller goes on at its next statement whatever the answer was
ReturnsToCaller(ok, next) == next

UpdateSessionStatus(update, next) ==
  \E ok \in BOOLEAN :
    /\ reports' = Append(reports, update)
    /\ flushState' = NextFlushState(flushState, ok)
    /\ pc' = ReturnsToCaller(ok, next)

\* an Exception leaves the handler and reaches the except clause at line 162
Raise(msg) ==
  /\ exc' = msg
  /\ pc' = "except"

InitMessage ==
  CASE Handler = "agent" ->
         "Initializing " \o config.agent_persona \o " for " \o config.workflow_phase \o " phase"
    [] Handler = "spek" ->
         "Initializing spek-kit workflow for /" \o config.spek_command \o " command"
    [] OTHER -> "Initializing Claude Code with Playwright MCP browser capabilities"

SecondMessage ==
  CASE Handler = "agent" ->
         config.agent_persona \o " executing /" \o config.workflow_phase \o " command"
    [] Handler = "spek" ->
         "Executing spek-kit /" \o config.spek_command \o " command with spec-driven development"
    [] OTHER ->
         "Claude Code analyzing " \o config.website_url \o " with agentic browser automation"

CompletedMessage ==
  CASE Handler = "agent" ->
         config.agent_persona \o " completed " \o config.workflow_phase \o " phase successfully"
    [] Handler = "spek" ->
         "Spek-kit /" \o config.spek_command
           \o " completed successfully with spec-driven development artifacts"
    [] OTHER -> "Agentic analysis completed successfully using Claude Code + Playwright MCP"

\* a mutation of ProcessingUpdate: only the newest message is sent
ProcessingUpdateNewestOnly(log) ==
  [phase |-> "Running",
   message |-> "Processing... (" \o ToString(Len(log)) \o " messages received)",
   messages |-> IF log = << >> THEN << >> ELSE << log[Len(log)] >>]

\* a mutation of ProcessingUpdate: the text counts the updates sent so far
\* instead of the messages
ProcessingUpdateCountsUpdates(log) ==
  [phase |-> "Running",
   message |-> "Processing... (" \o ToString(Len(reports)) \o " messages received)",
   messages |-> log]

\* the payload of the per-message report, lines 447-453
ProcessingUpdate(log) ==
  [phase |-> "Running",
   message |-> "Processing... (" \o ToString(Len(log)) \o " messages received)",
   messages |-> log]

CompletedUpdate(final, log) ==
  [phase |-> "Completed", message |-> CompletedMessage, completionTime |-> "utcnow",
   finalOutput |-> final, messages |-> log]

\* a mutation of FailureMessage: the exception text is left out
FailureMessageGeneric(e) == "Agentic analysis failed"

\* f"Agentic analysis failed: {str(e)}", line 169
FailureMessage(e) == "Agentic analysis failed: " \o e

FailedUpdate(e) ==
  [phase |-> "Failed", message |-> FailureMessage(e), completionTime |-> "utcnow"]

\* exception texts
SetupWorkspaceError == "Failed to setup spek-kit workspace"
SpekCommandError == "Spek-kit command failed: Unknown error"
AgentConfigError == "No agent configuration found for: " \o config.agent_persona
EmptyResultError == "Claude Code SDK returned empty result"
EngineErrors == {"rate limited"}
OSErrors == {"[Errno 28] No space left on device"}

\* ------------------------------------------------- run_agentic_session
\* lines 139-146: browser check, git setup, display name; each of the three
\* catches every Exception itself, so none of them changes the session's course
VerifySetup ==
  /\ pc = "start"
  /\ pc' = "dispatch"
  /\ UNCHANGED << config, otherVars, result, exc, exitCode, interrupted, streamVars, statusVars >>

\* lines 148-160
Dispatch ==
  /\ pc = "dispatch"
  /\ pc' = "handler_init"
  /\ UNCHANGED << config, otherVars, result, exc, exitCode, interrupted, streamVars, statusVars >>

\* first report of each handler: lines 518-524, 585-591, 777-783
InitReport ==
  /\ pc = "handler_init"
  /\ UpdateSessionStatus(
       [phase |-> "Running", message |-> InitMessage, startTime |-> "utcnow"],
       IF Handler = "standard" THEN "second_report" ELSE "setup_workspace")
  /\ UNCHANGED << config, otherVars, result, exc, exitCode, interrupted, streamVars >>

\* spek_kit.setup_workspace(): lines 527-528, 786-787
SetupWorkspace ==
  /\ pc = "setup_workspace"
  /\ \E ok \in BOOLEAN :
       IF ok
         THEN /\ pc' = IF Handler = "agent" THEN "agent_prompt" ELSE "second_report"
              /\ exc' = exc
         ELSE Raise(SetupWorkspaceError)
  /\ UNCHANGED << config, otherVars, result, exitCode, interrupted, streamVars, statusVars >>

\* agent_loader.get_agent_prompt(...): lines 790-795
GetAgentPrompt ==
  /\ pc = "agent_prompt"
  /\ \E found \in BOOLEAN :
       IF found
         THEN pc' = "second_report" /\ exc' = exc
         ELSE Raise(AgentConfigError)
  /\ UNCHANGED << config, otherVars, result, exitCode, interrupted, streamVars, statusVars >>

\* second report of each handler: lines 531-536, 597-602, 798-803
SecondReport ==
  /\ pc = "second_report"
  /\ UpdateSessionStatus(
       [phase |-> "Running", message |-> SecondMessage],
       CASE Handler = "agent" -> "agent_workspace"
         [] Handler = "spek" -> "spek_command"
         [] OTHER -> "run_claude")
  /\ UNCHANGED << config, otherVars, result, exc, exitCode, interrupted, streamVars >>

\* spek_kit.execute_spek_command: lines 539-542
ExecuteSpekCommand ==
  /\ pc = "spek_command"
  /\ \E success \in BOOLEAN :
       IF success
         THEN pc' = "run_claude" /\ exc' = exc
         ELSE Raise(SpekCommandError)
  /\ UNCHANGED << config, otherVars, result, exitCode, interrupted, streamVars, statusVars >>

\* agent_workspace.mkdir(parents=True, exist_ok=True): lines 806-807, unguarded
MakeAgentWorkspace ==
  /\ pc = "agent_workspace"
  /\ \/ pc' = "run_claude" /\ exc' = exc
     \/ \E e \in OSErrors : Raise(e)
  /\ UNCHANGED << config, otherVars, result, exitCode, interrupted, streamVars, statusVars >>

\* ----------------------------------------------------- _run_claude_code
\* lines 309-338: the client is created, the prompt sent, the lists start empty
StartClaude ==
  /\ pc = "run_claude"
  /\ pc' = "stream"
  /\ all_messages' = << >>
  /\ response_text' = << >>
  /\ UNCHANGED << config, otherVars, pending, result, exc, exitCode, interrupted,
                  events, origin, dropped_text, statusVars >>

\* the SDK raises while the client is set up or while the next stream message
\* is awaited: lines 327-341; line 489 logs and re-raises
EngineRaises ==
  /\ pc \in {"run_claude", "stream"}
  /\ \E e \in EngineErrors : Raise(e)
  /\ UNCHANGED << config, otherVars, result, exitCode, interrupted, streamVars, statusVars >>

\* async for message in client.receive_response(): a message whose content
\* holds n blocks; what each block is shows when the loop body reaches it
ReceiveMessage ==
  /\ pc = "stream"
  /\ \E n \in 0..(MaxBlocks - Len(events)) :
       /\ pending' = n
       /\ pc' = IF n = 0 THEN "stream" ELSE "blocks"
  /\ UNCHANGED << config, otherVars, all_messages, response_text, result, exc, exitCode,
                  interrupted, events, origin, dropped_text, statusVars >>

\* a mutation of AfterBlock: the status update is sent after every block
AfterBlockUpdateEach(left) == "flush"

\* where the loop body goes after a block, left counting the blocks of the
\* stream message not yet handled, this one included: to the next block, or
\* behind the for loop to the status update of lines 445-453
AfterBlock(left) == IF left = 1 THEN "flush" ELSE "blocks"

\* one pass of "for block in message.content", lines 352-443.  A TypeError of
\* json.dumps leaves the for loop for the handler at line 463, which goes on to
\* the next stream message: the rest of this message and its report are skipped
\* (what the skipped blocks hold is an input the loop never reads).
ProcessBlock ==
  /\ pc = "blocks"
  /\ pending > 0
  /\ \E b \in Blocks :
       /\ events' = Append(events, b)
       /\ IF JsonDumpsRaises(b)
            THEN /\ pending' = 0
                 /\ pc' = "stream"
                 /\ \E rest_has_text \in (IF pending > 1 THEN BOOLEAN ELSE { FALSE }) :
                      dropped_text' = (dropped_text \/ rest_has_text)
                 /\ UNCHANGED << all_messages, response_text, origin >>
            ELSE /\ pending' = pending - 1
                 /\ pc' = AfterBlock(pending)
                 /\ response_text' =
                      IF IsText(b) THEN Append(response_text, b.text) ELSE response_text
                 /\ all_messages' = HandleBlock(all_messages, b)
                 /\ origin' =
                      IF CreatesMessage(all_messages, b)
                        THEN AppendMsg(origin, Len(events) + 1)
                        ELSE origin
                 /\ dropped_text' =
                      IF IsText(b) /\ Strip(b.text) # << >> THEN FALSE ELSE dropped_text
  /\ UNCHANGED << config, otherVars, result, exc, exitCode, interrupted, statusVars >>

\* lines 445-453: the whole list goes out with a Running report
FlushMessages ==
  /\ pc = "flush"
  /\ UpdateSessionStatus(ProcessingUpdate(all_messages), "stream")
  /\ UNCHANGED << config, otherVars, result, exc, exitCode, interrupted, streamVars >>

\* the stream ends (ResultMessage, lines 456-461); lines 468-487 pick the result
FinishStream ==
  /\ pc = "stream"
  /\ IF FinalResult(response_text) = << >>
       THEN /\ Raise(EmptyResultError)
            /\ result' = result
       ELSE /\ result' = FinalResult(response_text)
            /\ pc' = IF Handler = "agent" THEN "write_result" ELSE "complete"
            /\ exc' = exc
  /\ UNCHANGED << config, otherVars, exitCode, interrupted, streamVars, statusVars >>

\* agent_result_file.write_text(result): lines 817-819, unguarded
WriteAgentResult ==
  /\ pc = "write_result"
  /\ \/ pc' = "complete" /\ exc' = exc
     \/ \E e \in OSErrors : Raise(e)
  /\ UNCHANGED << config, otherVars, result, exitCode, interrupted, streamVars, statusVars >>

\* a mutation of AfterHandler: the return after the spek-kit handler, line 157,
\* is missing and control falls through to the standard session
AfterHandlerFallsThrough == IF Handler = "spek" THEN "handler_init" ELSE "returned"

\* where control goes when a handler is done, lines 151-160: out of
\* run_agentic_session (the spek-kit branch returns at line 157)
AfterHandler == "returned"

\* final report of each handler: lines 566-578, 622-631, 832-843
ReportCompleted ==
  /\ pc = "complete"
  /\ UpdateSessionStatus(CompletedUpdate(result, all_messages), AfterHandler)
  /\ UNCHANGED << config, otherVars, result, exc, exitCode, interrupted, streamVars >>

\* a mutation of ExitStatus: sys.exit(0) stands where sys.exit(1) should
ExitStatusAlwaysZero(failed) == 0

\* the exit status: sys.exit(1) at line 174 ends the except clause; a run
\* whose run_agentic_session returns leaves main and asyncio.run with status 0
ExitStatus(failed) == IF failed THEN 1 ELSE 0

\* run_agentic_session returns, main returns, asyncio.run ends: exit status 0
MainReturns ==
  /\ pc = "returned"
  /\ pc' = "exited"
  /\ exitCode' = ExitStatus(FALSE)
  /\ UNCHANGED << config, otherVars, result, exc, interrupted, streamVars, statusVars >>

\* except Exception, lines 162-174: report Failed, then sys.exit(1)
HandleFailure ==
  /\ pc = "except"
  /\ UpdateSessionStatus(FailedUpdate(exc), "exited")
  /\ exitCode' = ExitStatus(TRUE)
  /\ UNCHANGED << config, otherVars, result, exc, interrupted, streamVars >>

\* KeyboardInterrupt is no Exception: it passes the except clause at line 162
\* and reaches main, lines 890-892, which logs and exits 0
Interrupt ==
  /\ pc # "exited"
  /\ pc' = "exited"
  /\ exitCode' = 0
  /\ interrupted' = TRUE
  /\ UNCHANGED << config, otherVars, result, exc, streamVars, statusVars >>

Next ==
  \/ VerifySetup
  \/ Dispatch
  \/ InitReport
  \/ SetupWorkspace
  \/ GetAgentPrompt
  \/ SecondReport
  \/ ExecuteSpekCommand
  \/ MakeAgentWorkspace
  \/ StartClaude
  \/ EngineRaises
  \/ ReceiveMessage
  \/ ProcessBlock
  \/ FlushMessages
  \/ FinishStream
  \/ WriteAgentResult
  \/ ReportCompleted
  \/ MainReturns
  \/ HandleFailure
  \/ Interrupt

Spec == Init /\ [][Next]_vars

\* ------------------------------------------- tool results around the cap
\* Lengths of tool output tried: short ones and those within CapMargin of the cap.
ContentLengths ==
  (0..CapMargin) \cup ((TruncCap - CapMargin)..(TruncCap + CapMargin))
\* a tool output of n characters, no two neighbours alike
ContentOfLen(n) == [i \in 1..n |-> ToString(i % 10)]
LongResultBlocks ==
  { [tool_use_id |-> "t1", content |-> ContentOfLen(n), is_error |-> err] :
      n \in ContentLengths, err \in BOOLEAN }

\* the runner is at its first statement and stays there
RunnerIdle ==
  /\ pc = "start"
  /\ config = [agent_persona |-> "", workflow_phase |-> "", spek_command |-> "",
               website_url |-> "acme.com"]
  /\ all_messages = << >>
  /\ response_text = << >>
  /\ pending = 0
  /\ result = << >>
  /\ exc = None
  /\ exitCode = -1
  /\ reports = << >>
  /\ flushState = "none"
  /\ events = << >>
  /\ origin = << >>
  /\ dropped_text = FALSE
  /\ interrupted = FALSE

\* the log holds nothing, or the tool use the result answers
InitTruncate ==
  /\ GraphIdle
  /\ RunnerIdle
  /\ PushIdle
  /\ McpIdle
  /\ PredIdle
  /\ SvcIdle
  /\ WfIdle
  /\ MainIdle
  /\ trunc_pc = "idle"
  /\ trunc_block = [tool_use_id |-> "t1", content |-> << >>, is_error |-> FALSE]
  /\ trunc_messages \in
       { << >>, << ToolUseMessage([id |-> "t1", name |-> "grep", input |-> "q_x"]) >> }

\* a tool-result block comes up in "for block in message.content"
TakeResultBlock ==
  /\ trunc_pc = "idle"
  /\ trunc_block' \in LongResultBlocks
  /\ trunc_pc' = "block"
  /\ UNCHANGED << runnerVars, mainVars, graphVars, pushVars, mcpVars, predVars, svcVars, wfVars, trunc_messages >>

\* lines 382-443 for that block
StoreResultBlock ==
  /\ trunc_pc = "block"
  /\ trunc_messages' = HandleBlock(trunc_messages, trunc_block)
  /\ trunc_pc' = "stored"
  /\ UNCHANGED << runnerVars, mainVars, graphVars, pushVars, mcpVars, predVars, svcVars, wfVars, trunc_block >>

NextTruncate == TakeResultBlock \/ StoreResultBlock

SpecTruncate == InitTruncate /\ [][NextTruncate]_vars

\* ------------------------------------------------- workspace push (sync-out)
\* An entry of the local tree: a directory, a file that decodes as UTF-8 or one
\* that does not; accepted says whether the remote store takes the file's write.
LocalEntries ==
  [kind : {"text", "binary"}, accepted : BOOLEAN] \cup [kind : {"dir"}, accepted : {FALSE}]
LocalTrees ==
  UNION { [1..n -> LocalEntries] : n \in 0..MaxFiles }
\* the local relative path, re-rooted under the remote workspace root
RemotePath(i) == remote_root \o "/f" \o ToString(i)
\* UTF-8 text write first; base64 with its marker when the file does not decode
Encoding(entry) == IF entry.kind = "text" THEN "utf8" ELSE "base64"

InitPush ==
  /\ GraphIdle
  /\ RunnerIdle
  /\ TruncIdle
  /\ McpIdle
  /\ PredIdle
  /\ SvcIdle
  /\ WfIdle
  /\ MainIdle
  /\ push_pc = "idle"
  /\ remote_root \in {"", "ws"}
  /\ local_files \in LocalTrees
  /\ visited = 0
  /\ write_attempts = << >>
  /\ remote_store = {}

\* push is a no-op when the remote workspace path is unset
StartPush ==
  /\ push_pc = "idle"
  /\ push_pc' = IF remote_root = "" THEN "done" ELSE "walk"
  /\ UNCHANGED << runnerVars, mainVars, graphVars, truncVars, mcpVars, predVars, svcVars, wfVars, remote_root, local_files, visited,
                  write_attempts, remote_store >>

\* a mutation of AfterFile: the walk ends at the first file that fails
AfterFileAbortsOnFailure(written) == IF written THEN "walk" ELSE "done"

\* a failure for one file is logged and skipped; the walk goes on
AfterFile(written) == "walk"

\* the walk passes the next entry: directories are skipped, a regular file is
\* written to its remote path
PushEntry ==
  /\ push_pc = "walk"
  /\ visited < Len(local_files)
  /\ LET i == visited + 1
         entry == local_files[i]
     IN  IF entry.kind = "dir"
           THEN /\ push_pc' = "walk"
                /\ UNCHANGED << write_attempts, remote_store >>
           ELSE /\ write_attempts' =
                     Append(write_attempts,
                            [path |-> RemotePath(i), encoding |-> Encoding(entry),
                             ok |-> entry.accepted])
                /\ remote_store' =
                     IF entry.accepted
                       THEN remote_store \cup
                              {[path |-> RemotePath(i), encoding |-> Encoding(entry)]}
                       ELSE remote_store
                /\ push_pc' = AfterFile(entry.accepted)
  /\ visited' = visited + 1
  /\ UNCHANGED << runnerVars, mainVars, graphVars, truncVars, mcpVars, predVars, svcVars, wfVars, remote_root, local_files >>

\* every entry has been passed
FinishPush ==
  /\ push_pc = "walk"
  /\ visited = Len(local_files)
  /\ push_pc' = "done"
  /\ UNCHANGED << runnerVars, mainVars, graphVars, truncVars, mcpVars, predVars, svcVars, wfVars, remote_root, local_files, visited,
                  write_attempts, remote_store >>

NextPush == StartPush \/ PushEntry \/ FinishPush

SpecPush == InitPush /\ [][NextPush]_vars

\* --------------------------------- mcp_servers/workspace_exec.py: MCP server
\* dict.get(key, default)
GetOr(d, key, default) == IF key \in DOMAIN d THEN d[key] ELSE default
EmptyDict == [k \in {} |-> ""]

\* JSON-RPC requests: with or without id, with or without params
Methods ==
  {"initialize", "tools/list", "tools/call", "notifications/initialized", "resources/list"}
RequestIds == {"1", "2"}
ArgumentChoices ==
  { EmptyDict, [command |-> "ls"], [command |-> "ls", workdir |-> "/src", timeout |-> 5] }
ParamChoices ==
  { EmptyDict, [name |-> "exec"], [name |-> "rm"] }
    \cup [name : {"exec", "rm"}, arguments : ArgumentChoices]
    \cup [arguments : ArgumentChoices]
Requests ==
  LET bare == [method : Methods] \cup { EmptyDict }
      withParams == bare \cup { ("params" :> p) @@ r : r \in bare, p \in ParamChoices }
  IN  withParams \cup { ("id" :> i) @@ r : r \in withParams, i \in RequestIds }

\* what a subprocess writes: bytes, "\\xff" standing for one that is no UTF-8
ByteStrings == { << >>, << "a", ".", "t" >>, << "a", "\\xff", "b" >> }
\* bytes.decode("utf-8", errors="replace")
RECURSIVE Decode(_)
Decode(bytes) ==
  IF bytes = << >> THEN ""
  ELSE (IF Head(bytes) = "\\xff" THEN "\\ufffd" ELSE Head(bytes)) \o Decode(Tail(bytes))
\* how a subprocess can end by itself
ProcOutcomes == [returncode : {0, 2}, stdout : ByteStrings, stderr : ByteStrings]
\* what create_subprocess_exec can raise
SpawnErrors == {"[Errno 2] No such file or directory: 'kubectl'"}

\* the dicts exec_via_kubectl and exec_via_nsenter return without a subprocess
\* result: lines 80-86, 112-118, 129-135, 142-148, 173-179, 190-196
FailureResult(error, code) ==
  [success |-> FALSE, error |-> error, stdout |-> "", stderr |-> "", exit_code |-> code]
TimedOutError(timeout) == "Command timed out after " \o ToString(timeout) \o " seconds"
MissingPodError == "POD_NAME environment variable not set"
ProcessLookupError == ""
MissingPidError ==
  "Could not discover workspace PID. Ensure shareProcessNamespace is enabled."

\* a mutation of CompletedResult: success is reported whatever the return code
CompletedResultAlwaysSuccess(p) ==
  [success |-> TRUE, stdout |-> Decode(p.stdout), stderr |-> Decode(p.stderr),
   exit_code |-> p.returncode]

\* lines 120-125 and 181-186
CompletedResult(p) ==
  [success |-> p.returncode = 0, stdout |-> Decode(p.stdout), stderr |-> Decode(p.stderr),
   exit_code |-> p.returncode]

\* a mutation of FormatOutput: the exit code is appended after every command
FormatOutputCodeAlways(res) ==
  (IF res.stderr # "" THEN res.stdout \o "\n[STDERR]\n" \o res.stderr ELSE res.stdout)
    \o "\n[Exit code: " \o ToString(res.exit_code) \o "]"

\* lines 288-294
FormatOutput(res) ==
  LET withStderr ==
        IF res.stderr # "" THEN res.stdout \o "\n[STDERR]\n" \o res.stderr ELSE res.stdout
      withCode ==
        IF ~res.success
          THEN withStderr \o "\n[Exit code: " \o ToString(res.exit_code) \o "]"
          ELSE withStderr
  IN  IF ~res.success /\ GetOr(res, "error", "") # ""
        THEN withCode \o "\n[Error: " \o res.error \o "]"
        ELSE withCode

ServerInfo == [name |-> "workspace-exec", version |-> "0.1.0"]
Tools == << [name |-> "exec"] >>

ResultResponse(req_id, res) == [jsonrpc |-> "2.0", id |-> req_id, result |-> res]

\* a mutation of ErrorResponse: the request's id is not echoed
ErrorResponseWithoutId(req_id, text) ==
  [jsonrpc |-> "2.0", id |-> None, error |-> [code |-> -32601, message |-> text]]

\* lines 310-317 and 324-331
ErrorResponse(req_id, text) ==
  [jsonrpc |-> "2.0", id |-> req_id, error |-> [code |-> -32601, message |-> text]]

\* lines 247-249
Method == GetOr(request, "method", "")
Params == GetOr(request, "params", EmptyDict)
ReqId == GetOr(request, "id", None)
ToolName == GetOr(Params, "name", "")
Arguments == GetOr(Params, "arguments", EmptyDict)

InitMcp ==
  /\ GraphIdle
  /\ RunnerIdle
  /\ TruncIdle
  /\ PushIdle
  /\ PredIdle
  /\ SvcIdle
  /\ WfIdle
  /\ MainIdle
  /\ mcp_pc = "idle"
  /\ request = << >>
  /\ exec_results = << >>
  /\ responses = << >>
  /\ pod_name \in {"", "agent-pod"}
  /\ exec_mode \in {"kubectl", "nsenter"}
  /\ workspace_pid \in {0, 4242}
  /\ proc = NoProc

\* the server has read and parsed a request: lines 347-351, 372-373
ReadRequest ==
  /\ mcp_pc = "idle"
  /\ request' \in Requests
  /\ mcp_pc' = "handling"
  /\ UNCHANGED << runnerVars, mainVars, graphVars, truncVars, pushVars, predVars, svcVars, wfVars, exec_results, responses, execVars >>

\* handle_mcp_request up to its return, or up to "await execute_command(...)"
HandleMcpRequest ==
  /\ mcp_pc = "handling"
  /\ CASE Method = "initialize" ->
            /\ responses' =
                 << ResultResponse(ReqId,
                      [protocolVersion |-> "2024-11-05",
                       capabilities |-> [tools |-> EmptyDict],
                       serverInfo |-> ServerInfo]) >>
            /\ mcp_pc' = "done"
       [] Method = "tools/list" ->
            /\ responses' = << ResultResponse(ReqId, [tools |-> Tools]) >>
            /\ mcp_pc' = "done"
       [] Method = "tools/call" /\ ToolName = "exec" ->
            /\ responses' = responses
            /\ mcp_pc' = "exec"
       [] Method = "tools/call" /\ ToolName # "exec" ->
            /\ responses' = << ErrorResponse(ReqId, "Unknown tool: " \o ToolName) >>
            /\ mcp_pc' = "done"
       [] Method = "notifications/initialized" ->
            /\ responses' = << >>
            /\ mcp_pc' = "done"
       [] OTHER ->
            /\ responses' = << ErrorResponse(ReqId, "Method not found: " \o Method) >>
            /\ mcp_pc' = "done"
  /\ UNCHANGED << runnerVars, mainVars, graphVars, truncVars, pushVars, predVars, svcVars, wfVars, request, exec_results, execVars >>

Timeout == GetOr(Arguments, "timeout", 300)

\* execute_command, lines 199-204, and the head of exec_via_kubectl, 79-86, or
\* of exec_via_nsenter with discover_workspace_pid, 52-74 and 140-148
ExecuteCommand ==
  /\ mcp_pc = "exec"
  /\ IF exec_mode = "nsenter"
       THEN \E pid \in (IF workspace_pid # 0 THEN {workspace_pid} ELSE {0, 4242}) :
              /\ workspace_pid' = pid
              /\ IF pid = 0
                   THEN /\ exec_results' = << FailureResult(MissingPidError, 1) >>
                        /\ mcp_pc' = "exec_done"
                   ELSE /\ exec_results' = exec_results
                        /\ mcp_pc' = "spawn"
       ELSE /\ workspace_pid' = workspace_pid
            /\ IF pod_name = ""
                 THEN /\ exec_results' = << FailureResult(MissingPodError, 1) >>
                      /\ mcp_pc' = "exec_done"
                 ELSE /\ exec_results' = exec_results
                      /\ mcp_pc' = "spawn"
  /\ UNCHANGED << runnerVars, mainVars, graphVars, truncVars, pushVars, predVars, svcVars, wfVars, request, responses, pod_name,
                  exec_mode, proc >>

\* asyncio.create_subprocess_exec, lines 101-105 and 162-166; what it raises is
\* caught at lines 127 and 188
SpawnSubprocess ==
  /\ mcp_pc = "spawn"
  /\ \/ /\ proc' = [NoProc EXCEPT !.state = "running"]
        /\ mcp_pc' = "communicate"
        /\ exec_results' = exec_results
     \/ \E err \in SpawnErrors :
          /\ exec_results' = << FailureResult(err, 1) >>
          /\ mcp_pc' = "exec_done"
          /\ proc' = proc
  /\ UNCHANGED << runnerVars, mainVars, graphVars, truncVars, pushVars, predVars, svcVars, wfVars, request, responses, pod_name,
                  exec_mode, workspace_pid >>

\* proc.communicate() returns within the timeout: lines 107-108, 120-125
SubprocessCompletes ==
  /\ mcp_pc = "communicate"
  /\ \E o \in ProcOutcomes :
       /\ proc' = [state |-> "exited", returncode |-> o.returncode, stdout |-> o.stdout,
                   stderr |-> o.stderr, waited |-> TRUE]
       /\ exec_results' = << CompletedResult(proc') >>
  /\ mcp_pc' = "exec_done"
  /\ UNCHANGED << runnerVars, mainVars, graphVars, truncVars, pushVars, predVars, svcVars, wfVars, request, responses, pod_name,
                  exec_mode, workspace_pid >>

\* asyncio.TimeoutError: proc.kill(), await proc.wait(), lines 109-118, 170-179.
\* While wait_for cancels communicate() the event loop runs; a process that
\* exits in that window is gone when kill() is called, kill() raises
\* ProcessLookupError (whose text is empty) and the handler at line 127 or
\* 188 returns instead of the timeout branch.
SubprocessTimesOut ==
  /\ mcp_pc = "communicate"
  /\ \/ /\ proc' = [proc EXCEPT !.state = "killed", !.returncode = -9, !.waited = TRUE]
        /\ exec_results' = << FailureResult(TimedOutError(Timeout), -1) >>
     \/ \E o \in ProcOutcomes :
          /\ proc' = [state |-> "gone", returncode |-> o.returncode,
                      stdout |-> o.stdout, stderr |-> o.stderr, waited |-> FALSE]
          /\ exec_results' = << FailureResult(ProcessLookupError, 1) >>
  /\ mcp_pc' = "exec_done"
  /\ UNCHANGED << runnerVars, mainVars, graphVars, truncVars, pushVars, predVars, svcVars, wfVars, request, responses, pod_name,
                  exec_mode, workspace_pid >>

\* execute_command has returned; lines 286-307 format its result and return
ExecReturns ==
  /\ mcp_pc = "exec_done"
  /\ responses' =
       << ResultResponse(ReqId,
            [content |-> << [type |-> "text", text |-> FormatOutput(exec_results[1])] >>,
             isError |-> ~exec_results[1].success]) >>
  /\ mcp_pc' = "done"
  /\ UNCHANGED << runnerVars, mainVars, graphVars, truncVars, pushVars, predVars, svcVars, wfVars, request, exec_results, execVars >>

\* the response, if any, is written out and the server reads on: lines 353-355, 374-376
SendResponse ==
  /\ mcp_pc = "done"
  /\ mcp_pc' = "idle"
  /\ request' = << >>
  /\ exec_results' = << >>
  /\ responses' = << >>
  /\ proc' = NoProc
  /\ UNCHANGED << runnerVars, mainVars, graphVars, truncVars, pushVars, predVars, svcVars, wfVars, pod_name, exec_mode, workspace_pid >>

NextMcp ==
  \/ ReadRequest
  \/ HandleMcpRequest
  \/ ExecuteCommand
  \/ SpawnSubprocess
  \/ SubprocessCompletes
  \/ SubprocessTimesOut
  \/ ExecReturns
  \/ SendResponse

SpecMcp == InitMcp /\ [][NextMcp]_vars

\* ------------------------------- rfe-builder safe_prediction.py: fallbacks
\* Values of model fields, tagged with their Python type.
StrVal(s) == [type |-> "str", s |-> s, items |-> << >>]
ListVal(items) == [type |-> "list", s |-> "", items |-> items]
IntVal(n) == [type |-> "int", s |-> ToString(n), items |-> << >>]
EmptyData == [f \in {} |-> StrVal("")]

\* The output models of agents.py: field name |-> annotation.
OutputModels ==
  { "RFEAnalysis", "Synthesis", "ComponentTeam", "ComponentTeamsList", "Architecture" }

ModelFields(cls) ==
  CASE cls = "RFEAnalysis" ->
         [f \in { "analysis", "persona", "estimatedComplexity", "concerns",
                  "recommendations", "requiredComponents" } |->
            IF f \in { "analysis", "persona", "estimatedComplexity" }
            THEN "str" ELSE "List[str]"]
    [] cls = "Synthesis" ->
         [f \in { "overallComplexity", "consensusRecommendations", "criticalRisks",
                  "requiredCapabilities", "estimatedTimeline", "synthesis" } |->
            IF f \in { "overallComplexity", "estimatedTimeline", "synthesis" }
            THEN "str" ELSE "List[str]"]
    [] cls = "ComponentTeam" ->
         [f \in { "teamName", "components", "responsibilities", "epicTitle",
                  "epicDescription" } |->
            IF f \in { "teamName", "epicTitle", "epicDescription" }
            THEN "str" ELSE "List[str]"]
    [] cls = "ComponentTeamsList" ->
         [f \in { "teams" } |-> "List[ComponentTeam]"]
    [] cls = "Architecture" ->
         [f \in { "type", "mermaidCode", "description", "components",
                  "integrations" } |->
            IF f \in { "type", "mermaidCode", "description" }
            THEN "str" ELSE "List[str]"]

\* pydantic's validation of one field: a str field takes a str, a List[str]
\* field a list of str, a List[ComponentTeam] field no str item.
Accepts(annotation, v) ==
  CASE annotation = "str" -> v.type = "str"
    [] annotation = "List[str]" -> v.type = "list"
    [] annotation = "List[ComponentTeam]" -> v.type = "list" /\ v.items = << >>
    [] OTHER -> FALSE

\* output_cls(**kwargs) succeeds iff every field is given and validates
Constructs(cls, kwargs) ==
  \A f \in DOMAIN ModelFields(cls) :
    f \in DOMAIN kwargs /\ Accepts(ModelFields(cls)[f], kwargs[f])

Instance(cls, kwargs) ==
  [kind |-> "model", cls |-> cls,
   data |-> [f \in DOMAIN ModelFields(cls) |-> kwargs[f]]]

\* The module's logger is a standard logging.Logger: a call whose level is
\* enabled hands its keyword arguments to Logger._log, which takes none of
\* them and raises TypeError; a call below the level returns at once.
LogLevels == { "INFO", "WARNING", "CRITICAL" }
LevelNo(level) ==
  CASE level = "INFO" -> 20
    [] level = "WARNING" -> 30
    [] level = "ERROR" -> 40
    [] level = "CRITICAL" -> 50

IsEnabledFor(level, configured) == LevelNo(level) >= LevelNo(configured)

UnexpectedKeyword(kw) ==
  "TypeError: Logger._log() got an unexpected keyword argument '" \o kw \o "'"

\* "" when the call returns, the TypeError when it raises
LogWithKeywords(level, kw, configured) ==
  IF IsEnabledFor(level, configured) THEN UnexpectedKeyword(kw) ELSE ""

Returned(value) == [raised |-> "", value |-> << value >>]
Raised(error) == [raised |-> error, value |-> << >>]

FieldDefaults(persona, msg) ==
  [f \in { "analysis", "persona", "estimatedComplexity", "concerns",
           "recommendations", "requiredComponents", "overallComplexity",
           "consensusRecommendations", "criticalRisks", "requiredCapabilities",
           "estimatedTimeline", "synthesis", "teamName", "team_components",
           "responsibilities", "epicTitle", "epicDescription", "teams", "type",
           "mermaidCode", "description", "components", "integrations" } |->
     CASE f = "analysis" -> StrVal(msg)
       [] f = "persona" -> StrVal(persona)
       [] f = "estimatedComplexity" -> StrVal("UNKNOWN")
       [] f = "concerns" -> ListVal(<< "Processing error: " \o msg >>)
       [] f = "recommendations" -> ListVal(<< "Review agent configuration and retry" >>)
       [] f = "requiredComponents" -> ListVal(<< "Error recovery needed" >>)
       [] f = "overallComplexity" -> StrVal("UNKNOWN")
       [] f = "consensusRecommendations" ->
            ListVal(<< "System error - manual review required" >>)
       [] f = "criticalRisks" -> ListVal(<< "System error: " \o msg >>)
       [] f = "requiredCapabilities" ->
            ListVal(<< "Error recovery and system validation" >>)
       [] f = "estimatedTimeline" -> StrVal("Unknown due to processing error")
       [] f = "synthesis" -> StrVal("Error during synthesis: " \o msg)
       [] f = "teamName" -> StrVal("Error Recovery Team")
       [] f = "team_components" -> ListVal(<< "System validation required" >>)
       [] f = "responsibilities" -> ListVal(<< "Resolve processing errors" >>)
       [] f = "epicTitle" -> StrVal("Fix System Error: " \o msg)
       [] f = "epicDescription" -> StrVal("Address system processing issues")
       [] f = "teams" -> ListVal(<< >>)
       [] f = "type" -> StrVal("error")
       [] f = "mermaidCode" ->
            StrVal("graph TD\n    A[Error] --> B[Recovery Needed]")
       [] f = "description" -> StrVal("Architecture generation failed: " \o msg)
       [] f = "components" -> ListVal(<< "Error recovery system" >>)
       [] f = "integrations" -> ListVal(<< "Manual intervention required" >>)]

\* the default of a field the table does not name, from its annotation
AnnotationDefault(annotation, msg) ==
  CASE annotation = "str" -> StrVal("Error: " \o msg)
    [] annotation \in { "List[str]", "List[ComponentTeam]" } ->
         ListVal(<< "Error: " \o msg >>)
    [] annotation = "int" -> IntVal(0)
    [] OTHER -> StrVal("Error: " \o msg)

FilteredDefaultsFromAnnotations(cls, persona, msg) ==
  [f \in DOMAIN ModelFields(cls) |-> AnnotationDefault(ModelFields(cls)[f], msg)]

FilteredDefaults(cls, persona, msg) ==
  LET field_defaults == FieldDefaults(persona, msg)
  IN  [f \in DOMAIN ModelFields(cls) |->
         IF f \in DOMAIN field_defaults
         THEN field_defaults[f]
         ELSE AnnotationDefault(ModelFields(cls)[f], msg)]

MinimalDefaults(cls) == [f \in DOMAIN ModelFields(cls) |-> StrVal("Error")]

create_fallback_response(cls, persona, msg, configured) ==
  LET filtered_defaults == FilteredDefaults(cls, persona, msg)
      logged == LogWithKeywords("ERROR", "model", configured)
  IN  IF Constructs(cls, filtered_defaults)
      THEN Returned(Instance(cls, filtered_defaults))
      ELSE IF logged # ""
      THEN Raised(logged)
      ELSE IF Constructs(cls, MinimalDefaults(cls))
      THEN Returned(Instance(cls, MinimalDefaults(cls)))
      ELSE Raised("ValidationError")

\* Responses: objects without model_dump, model instances (complete or
\* lacking one field), and an object whose model_dump raises.
SampleData(cls) ==
  [f \in DOMAIN ModelFields(cls) |->
     IF ModelFields(cls)[f] = "str" THEN StrVal("ok")
     ELSE IF ModelFields(cls)[f] = "List[str]" THEN ListVal(<< "item" >>)
     ELSE ListVal(<< >>)]

Without(data, field) == [f \in DOMAIN data \ { field } |-> data[f]]

PlainResponses ==
  { [kind |-> k, cls |-> "", data |-> EmptyData] : k \in { "str", "NoneType", "object" } }

ModelResponses(cls) ==
  { [kind |-> "model", cls |-> cls, data |-> SampleData(cls)] }
  \cup { [kind |-> "model", cls |-> cls, data |-> Without(SampleData(cls), f)] :
           f \in DOMAIN ModelFields(cls) }

DumpRaises == [kind |-> "dump_raises", cls |-> "", data |-> EmptyData]

Responses ==
  PlainResponses \cup { DumpRaises } \cup UNION { ModelResponses(c) : c \in OutputModels }

HasModelDump(r) == r.kind \in { "model", "dump_raises" }

ValidateAnyFieldPresent(r, expected_type) ==
  IF ~HasModelDump(r) THEN FALSE
  ELSE IF r.kind = "dump_raises" THEN FALSE
  ELSE \E field \in DOMAIN ModelFields(expected_type) : field \in DOMAIN r.data

validate_structured_response(r, expected_type) ==
  IF ~HasModelDump(r) THEN FALSE
  ELSE IF r.kind = "dump_raises" THEN FALSE
  ELSE \A field \in DOMAIN ModelFields(expected_type) : field \in DOMAIN r.data

\* Settings.llm.astructured_predict: raises, or returns some response
LlmErrors ==
  { "Connection refused", "",
    "Request timed out after 600 seconds waiting for the model" }
LlmOutcomes(cls) ==
  { [kind |-> "raise", error |-> e, value |-> << >>] : e \in LlmErrors }
  \cup { [kind |-> "return", error |-> "", value |-> << r >>] :
           r \in PlainResponses \cup { DumpRaises } \cup ModelResponses(cls) }

InvalidStructure == "LLM returned invalid response structure"

\* the except handler of safe_structured_predict, for the exception e
PredictionFailed(cls, persona, e, configured) ==
  LET msg == "Prediction error: " \o e
      logged == LogWithKeywords("ERROR", "persona", configured)
  IN  IF logged # ""
      THEN [out |-> Raised(logged), msg |-> msg]
      ELSE [out |-> create_fallback_response(cls, persona, msg, configured),
            msg |-> msg]

\* the body of safe_structured_predict once the LLM call has settled
safe_structured_predict(cls, persona, llm, configured) ==
  IF llm.kind = "raise"
  THEN PredictionFailed(cls, persona, llm.error, configured)
  ELSE IF validate_structured_response(llm.value[1], cls)
  THEN LET logged == LogWithKeywords("INFO", "persona", configured)
       IN  IF logged # ""
           THEN PredictionFailed(cls, persona, logged, configured)
           ELSE [out |-> Returned(llm.value[1]), msg |-> ""]
  ELSE LET logged == LogWithKeywords("WARNING", "persona", configured)
           fallback ==
             create_fallback_response(cls, persona, InvalidStructure, configured)
       IN  IF logged # ""
           THEN PredictionFailed(cls, persona, logged, configured)
           ELSE IF fallback.raised # ""
           THEN PredictionFailed(cls, persona, fallback.raised, configured)
           ELSE [out |-> fallback, msg |-> InvalidStructure]

Personas == { "PRODUCT_MANAGER", "" }
ErrorMsgs == { "Test error", "" }

InitPredict ==
  /\ GraphIdle
  /\ RunnerIdle
  /\ TruncIdle
  /\ PushIdle
  /\ McpIdle
  /\ SvcIdle
  /\ WfIdle
  /\ MainIdle
  /\ pred_pc = "idle"
  /\ pred_call = NoCall
  /\ log_level \in LogLevels
  /\ response = << >>
  /\ error_msg = ""
  /\ pred_ret = << >>
  /\ valid_ret = << >>
  /\ pred_raised = ""
  /\ yielded = << >>

Settle(out) ==
  /\ pred_pc' = IF out.raised = "" THEN "returned" ELSE "raised"
  /\ pred_ret' = out.value
  /\ pred_raised' = out.raised

\* a direct call of create_fallback_response
CallCreateFallback ==
  /\ pred_pc = "idle"
  /\ \E cls \in OutputModels, persona \in Personas, msg \in ErrorMsgs :
       /\ pred_call' =
            [fn |-> "create_fallback_response", output_cls |-> cls, persona |-> persona]
       /\ error_msg' = msg
       /\ Settle(create_fallback_response(cls, persona, msg, log_level))
  /\ UNCHANGED << runnerVars, mainVars, graphVars, truncVars, pushVars, mcpVars, svcVars, wfVars, log_level, response, valid_ret, yielded >>

\* a direct call of validate_structured_response
CallValidate ==
  /\ pred_pc = "idle"
  /\ \E r \in Responses, expected_type \in OutputModels :
       /\ pred_call' =
            [fn |-> "validate_structured_response", output_cls |-> expected_type,
             persona |-> ""]
       /\ response' = << r >>
       /\ valid_ret' = << validate_structured_response(r, expected_type) >>
  /\ pred_pc' = "returned"
  /\ UNCHANGED << runnerVars, mainVars, graphVars, truncVars, pushVars, mcpVars, svcVars, wfVars, log_level, error_msg, pred_ret,
                  pred_raised, yielded >>

\* safe_structured_predict up to the await of the LLM call
CallPredict ==
  /\ pred_pc = "idle"
  /\ \E cls \in OutputModels, persona \in Personas :
       pred_call' =
         [fn |-> "safe_structured_predict", output_cls |-> cls, persona |-> persona]
  /\ pred_pc' = "llm"
  /\ UNCHANGED << runnerVars, mainVars, graphVars, truncVars, pushVars, mcpVars, svcVars, wfVars, log_level, response, error_msg,
                  pred_ret, valid_ret, pred_raised, yielded >>

\* the LLM call settles and safe_structured_predict runs to its end
LlmSettles ==
  /\ pred_pc = "llm"
  /\ \E llm \in LlmOutcomes(pred_call.output_cls) :
       LET done ==
             safe_structured_predict(pred_call.output_cls, pred_call.persona, llm,
                                     log_level)
       IN  /\ response' = llm.value
           /\ error_msg' = done.msg
           /\ Settle(done.out)
  /\ UNCHANGED << runnerVars, mainVars, graphVars, truncVars, pushVars, mcpVars, svcVars, wfVars, pred_call, log_level, valid_ret, yielded >>

\* ---- agents.py: stream_structured_predict_with_events
ThinkingEvent(persona) ==
  [type |-> "streaming", persona |-> persona, partial_content |-> "",
   streaming_type |-> "thinking"]

WritingEvent(persona, chunk) ==
  [type |-> "streaming", persona |-> persona, partial_content |-> chunk,
   streaming_type |-> "writing"]

CompleteEvent(persona, res) == [type |-> "complete", persona |-> persona, result |-> res]

\* the except clause yields nothing
OnStreamingErrorSilent(persona, e) == << >>

\* what the except clause of the generator yields, lines 99-109
OnStreamingError(persona, e) ==
  << CompleteEvent(persona,
       [f \in { "analysis", "persona" } |->
          IF f = "analysis" THEN StrVal("Error during analysis: " \o e)
          ELSE StrVal(persona)]) >>

\* getattr(final_response, name, "")
Attr(r, name) == IF name \in DOMAIN r.data THEN r.data[name].s ELSE ""

\* str() of a model instance: its fields, never empty
StrOf(r) == "analysis='" \o Attr(r, "analysis") \o "' persona='" \o Attr(r, "persona") \o "'"

FinalText(r) ==
  IF Attr(r, "analysis") # "" THEN Attr(r, "analysis")
  ELSE IF Attr(r, "synthesis") # "" THEN Attr(r, "synthesis")
  ELSE StrOf(r)

\* range(0, len(final_text), chunk_size) has this many members
ChunkCount(text) == (Len(text) + chunk_size - 1) \div chunk_size

\* final_text[: i + chunk_size] for the k-th member i of the range
Chunk(text, k) ==
  SubSeq(text, 1, IF k * chunk_size < Len(text) THEN k * chunk_size ELSE Len(text))

WritingEvents == { i \in 1..Len(yielded) : yielded[i].streaming_type = "writing" }

\* the generator starts: the thinking event is yielded and the prediction
\* awaited (analyze_rfe_streaming passes RFEAnalysis)
CallStream ==
  /\ pred_pc = "idle"
  /\ \E persona \in Personas :
       /\ pred_call' =
            [fn |-> "stream_structured_predict_with_events",
             output_cls |-> "RFEAnalysis", persona |-> persona]
       /\ yielded' = << ThinkingEvent(persona) >>
  /\ pred_pc' = "gen_llm"
  /\ UNCHANGED << runnerVars, mainVars, graphVars, truncVars, pushVars, mcpVars, svcVars, wfVars,
                  log_level, response, error_msg, pred_ret, valid_ret, pred_raised >>

\* the prediction settles; an exception of it is caught at line 99
StreamPredictionSettles ==
  /\ pred_pc = "gen_llm"
  /\ \E llm \in LlmOutcomes(pred_call.output_cls) :
       LET done ==
             safe_structured_predict(pred_call.output_cls, pred_call.persona, llm,
                                     log_level)
       IN  /\ response' = llm.value
           /\ error_msg' = done.msg
           /\ pred_ret' = done.out.value
           /\ IF done.out.raised # ""
              THEN /\ yielded' =
                        yielded \o OnStreamingError(pred_call.persona, done.out.raised)
                   /\ pred_pc' = "gen_done"
              ELSE /\ yielded' = yielded
                   /\ pred_pc' = "gen_chunks"
  /\ UNCHANGED << runnerVars, mainVars, graphVars, truncVars, pushVars, mcpVars, svcVars, wfVars,
                  pred_call, log_level, valid_ret, pred_raised >>

\* one pass of the chunk loop, lines 57-66
YieldChunk ==
  /\ pred_pc = "gen_chunks"
  /\ Cardinality(WritingEvents) < ChunkCount(FinalText(pred_ret[1]))
  /\ yielded' =
       Append(yielded,
              WritingEvent(pred_call.persona,
                           Chunk(FinalText(pred_ret[1]), Cardinality(WritingEvents) + 1)))
  /\ UNCHANGED << runnerVars, mainVars, graphVars, truncVars, pushVars, mcpVars, svcVars, wfVars,
                  pred_pc, pred_call, log_level, response, error_msg, pred_ret,
                  valid_ret, pred_raised >>

\* the chunk loop is over: the dump of the response is yielded, lines 69-88
YieldComplete ==
  /\ pred_pc = "gen_chunks"
  /\ Cardinality(WritingEvents) = ChunkCount(FinalText(pred_ret[1]))
  /\ yielded' = Append(yielded, CompleteEvent(pred_call.persona, pred_ret[1].data))
  /\ pred_pc' = "gen_done"
  /\ UNCHANGED << runnerVars, mainVars, graphVars, truncVars, pushVars, mcpVars, svcVars, wfVars,
                  pred_call, log_level, response, error_msg, pred_ret, valid_ret,
                  pred_raised >>

NextPredict ==
  \/ CallCreateFallback
  \/ CallValidate
  \/ CallPredict
  \/ LlmSettles
  \/ CallStream
  \/ StreamPredictionSettles
  \/ YieldChunk
  \/ YieldComplete

SpecPredict == InitPredict /\ [][NextPredict]_vars

\* ------------------- rfe-builder services/mcp_service.py and health_check.py
\* A dict is a function from its keys to the text of its values.
Now == "<now>"
PyNone == "None"

\* data_type.split("_")[-1]
LastPart(s) ==
  LET marks == { i \in 1..Len(s) : SubSeq(s, i, i) = "_" }
  IN  IF marks = { } THEN s
      ELSE SubSeq(s, (CHOOSE i \in marks : \A j \in marks : j <= i) + 1, Len(s))

_create_error_response(data_type, error_type, error_message, default_data) ==
  [k \in { "success", "error", "error_type", "data_type", "timestamp",
           LastPart(data_type) } |->
     CASE k = LastPart(data_type) -> default_data
       [] k = "success" -> "False"
       [] k = "error" -> error_type \o ": " \o error_message
       [] k = "error_type" -> error_type
       [] k = "data_type" -> data_type
       [] k = "timestamp" -> Now]

\* self.client.query: a dict with or without "data", something that is no
\* dict, or an exception.  MCPConnectionError is taken to be an MCPError, as
\* the order of the except clauses of search_jira_tickets has it.
QueryOutcomes ==
  { [kind |-> "dict", data |-> d, error |-> ""] : d \in { "<missing>", "['RFE-1']" } }
  \cup { [kind |-> "NoneType", data |-> "<missing>", error |-> ""] }
  \cup { [kind |-> k, data |-> "<missing>", error |-> "boom"] :
           k \in { "MCPConnectionError", "MCPError", "TimeoutError" } }

\* what leaves the try block: the caught exception's class and text, or ""
QueryRaises(q) ==
  CASE q.kind = "dict" -> [cls |-> "", text |-> ""]
    [] q.kind = "NoneType" ->
         [cls |-> "AttributeError",
          text |-> "'NoneType' object has no attribute 'get'"]
    [] OTHER -> [cls |-> q.kind, text |-> q.error]

\* response.get("data", default)
ResponseData(q, default) == IF q.data = "<missing>" THEN default ELSE q.data

Queries == { PyNone, "login" }
MaxResultsChoices == { 1, 150 }

\* the text of search_params after the None values are removed
SearchParams(query, max_results) ==
  "{'action': 'search_tickets'"
    \o (IF query = PyNone THEN "" ELSE ", 'query': '" \o query \o "'")
    \o ", 'max_results': "
    \o ToString(IF max_results < 100 THEN max_results ELSE 100) \o "}"

search_jira_tickets(query, max_results, q) ==
  LET e == QueryRaises(q)
  IN  CASE e.cls = "" ->
             [k \in { "success", "tickets", "query", "server", "timestamp" } |->
                CASE k = "success" -> "True"
                  [] k = "tickets" -> ResponseData(q, "[]")
                  [] k = "query" -> SearchParams(query, max_results)
                  [] k = "server" -> "atlassian"
                  [] k = "timestamp" -> Now]
        [] e.cls = "MCPConnectionError" ->
             _create_error_response("jira_tickets", "Connection error", e.text, "[]")
        [] e.cls = "MCPError" ->
             _create_error_response("jira_tickets", "MCP error", e.text, "[]")
        [] OTHER ->
             _create_error_response("jira_tickets", "Unexpected error", e.text, "[]")

Repos == { << "octocat", "Hello-World" >> }

get_github_repository_info(repo_owner, repo_name, q) ==
  LET e == QueryRaises(q)
  IN  CASE e.cls = "" ->
             [k \in { "success", "repository", "owner", "name", "server",
                      "timestamp" } |->
                CASE k = "success" -> "True"
                  [] k = "repository" -> ResponseData(q, "{}")
                  [] k = "owner" -> repo_owner
                  [] k = "name" -> repo_name
                  [] k = "server" -> "github"
                  [] k = "timestamp" -> Now]
        [] e.cls \in { "MCPConnectionError", "MCPError" } ->
             _create_error_response("github_repo", "MCP error", e.text, "{}")
        [] OTHER ->
             _create_error_response("github_repo", "Unexpected error", e.text, "{}")

Spaces == { PyNone, "ENG" }

search_confluence_docs(search_query, space_key, q) ==
  LET e == QueryRaises(q)
  IN  CASE e.cls = "" ->
             [k \in { "success", "documents", "query", "space", "server",
                      "timestamp" } |->
                CASE k = "success" -> "True"
                  [] k = "documents" -> ResponseData(q, "[]")
                  [] k = "query" -> search_query
                  [] k = "space" -> space_key
                  [] k = "server" -> "confluence"
                  [] k = "timestamp" -> Now]
        [] e.cls \in { "MCPConnectionError", "MCPError" } ->
             _create_error_response("confluence_docs", "MCP error", e.text, "[]")
        [] OTHER ->
             _create_error_response("confluence_docs", "Unexpected error", e.text, "[]")

\* ---- health_check.py
Servers == { "atlassian", "github", "confluence" }
HealthMaps == UNION { [known -> BOOLEAN] : known \in SUBSET Servers }

\* validate_mcp_config_for_rfe_builder: valid, invalid, or an exception
ConfigOutcomes == { "valid", "invalid", "raises" }

\* what get_mcp_service() and get_connection_status() do: whether
\* _initialize_connections (run when not connected) connects, whether a call
\* raises, and the map client.health_check() returns
ConnectionOutcomes ==
  [connects : BOOLEAN, raises : BOOLEAN, health : HealthMaps]

HealthyCount(health) == Cardinality({ srv \in DOMAIN health : health[srv] })
TotalCount(health) == Cardinality(DOMAIN health)

McpHealth(healthy_servers, total_servers) ==
  IF healthy_servers = total_servers /\ total_servers > 0 THEN "healthy"
  ELSE IF healthy_servers > 0 THEN "degraded"
  ELSE "unhealthy"

ConfigComponent(config_outcome) ==
  CASE config_outcome = "valid" -> [status |-> "healthy"]
    [] config_outcome = "invalid" -> [status |-> "unhealthy"]
    [] OTHER -> [status |-> "error"]

ConnectionsComponent(conn) ==
  IF conn.raises
  THEN [status |-> "error"]
  ELSE [status |-> McpHealth(HealthyCount(conn.health), TotalCount(conn.health)),
        healthy_servers |-> HealthyCount(conn.health),
        total_servers |-> TotalCount(conn.health)]

OverallStatusAnyHealthy(component_statuses) ==
  IF \E i \in DOMAIN component_statuses : component_statuses[i] = "healthy"
  THEN "healthy" ELSE "unhealthy"

OverallStatus(component_statuses) ==
  IF \A i \in DOMAIN component_statuses : component_statuses[i] = "healthy"
  THEN "healthy"
  ELSE IF \E i \in DOMAIN component_statuses : component_statuses[i] = "healthy"
  THEN "degraded"
  ELSE "unhealthy"

get_system_health(config_outcome, conn) ==
  LET components ==
        [c \in { "mcp_config", "mcp_connections" } |->
           IF c = "mcp_config" THEN ConfigComponent(config_outcome)
           ELSE ConnectionsComponent(conn)]
  IN  [timestamp |-> Now,
       overall_status |->
         OverallStatus(<< components["mcp_config"].status,
                          components["mcp_connections"].status >>),
       components |-> components]

\* the status a service connected earlier holds: what health_check returned
InitialStatus ==
  { [srv \in Servers |-> TRUE], [srv \in { "atlassian" } |-> FALSE] }

\* get_connection_status, lines 65-66, with _initialize_connections, 43-56:
\* run when the service is not connected
InitializeConnections(conn) ==
  /\ svc_connected' = (IF svc_connected THEN TRUE ELSE conn.connects)
  /\ svc_status' = (IF ~svc_connected /\ conn.connects THEN conn.health ELSE svc_status)

\* ---- get_contextual_data_for_rfe
DataTypes == { "jira_tickets", "github_repo", "confluence_docs" }
ServerOf(data_type) ==
  CASE data_type = "jira_tickets" -> "atlassian"
    [] data_type = "github_repo" -> "github"
    [] OTHER -> "confluence"

\* the connection outcomes in which health_check knows every server
KnownServerOutcomes ==
  { conn \in ConnectionOutcomes : DOMAIN conn.health = Servers }

\* how a source's query goes: it answers, it fails, or it takes longer than
\* _request_timeout
SourceOutcomes == { "answers", "fails", "slow" }
OutcomeOf(o) ==
  IF o = "fails" THEN [kind |-> "MCPError", data |-> "<missing>", error |-> "boom"]
  ELSE [kind |-> "dict", data |-> "['RFE-1']", error |-> ""]

\* what the coroutine of a source returns
SourceResult(data_type, o) ==
  CASE data_type = "jira_tickets" -> search_jira_tickets("login", 5, OutcomeOf(o))
    [] data_type = "github_repo" ->
         get_github_repository_info("octocat", "Hello-World", OutcomeOf(o))
    [] OTHER -> search_confluence_docs("login", PyNone, OutcomeOf(o))

HealthyServers(health) == { srv \in DOMAIN health : health[srv] }

\* lines 260-298: the sources queried
Queried(health, has_repo) ==
  { t \in DataTypes :
      /\ ServerOf(t) \in HealthyServers(health)
      /\ t = "github_repo" => has_repo }

TimeoutEntry ==
  [success |-> "False",
   error |-> "Data collection timed out after 30.0 seconds",
   error_type |-> "TimeoutError"]

\* lines 301-332: one wait_for around the gather of all sources
DataSources(health, has_repo, outcome) ==
  LET queried == Queried(health, has_repo)
  IN  IF \E t \in queried : outcome[t] = "slow"
        THEN [k \in { "timeout_error" } |-> TimeoutEntry]
        ELSE [t \in queried |-> SourceResult(t, outcome[t])]

\* lines 239-257 and 334-356; total_data_points, a count over values that are
\* opaque here, is left out
get_contextual_data_for_rfe(health, has_repo, outcome) ==
  IF HealthyServers(health) = { }
    THEN [data_sources |-> << >>,
          summary |-> [error |-> "No healthy MCP servers available"]]
    ELSE LET data_sources == DataSources(health, has_repo, outcome)
         IN  [data_sources |-> data_sources,
              summary |->
                [healthy_servers |-> HealthyServers(health),
                 successful_sources |->
                   { k \in DOMAIN data_sources : data_sources[k].success = "True" }]]

\* ---- close
DisconnectOutcomes == { "done", "raises", "times out" }

\* a cleanup that is skipped when the disconnect does not return
closeCleanupAfterDisconnect(connected, status, disconnect) ==
  IF connected
    THEN IF disconnect = "done"
           THEN [connected |-> FALSE, status |-> << >>, disconnect |-> disconnect]
           ELSE [connected |-> connected, status |-> status, disconnect |-> disconnect]
    ELSE [connected |-> connected, status |-> status, disconnect |-> "not called"]

\* lines 358-372: the finally clause runs whatever the disconnect did
close(connected, status, disconnect) ==
  IF connected
    THEN [connected |-> FALSE, status |-> << >>, disconnect |-> disconnect]
    ELSE [connected |-> connected, status |-> status, disconnect |-> "not called"]

InitService ==
  /\ GraphIdle
  /\ RunnerIdle
  /\ TruncIdle
  /\ PushIdle
  /\ McpIdle
  /\ PredIdle
  /\ WfIdle
  /\ MainIdle
  /\ svc_connected \in BOOLEAN
  /\ svc_status \in (IF svc_connected THEN InitialStatus ELSE { << >> })
  /\ svc_call = ""
  /\ svc_ret = << >>
  /\ health_ret = << >>
  /\ svc_args = << >>

SearchJiraTickets ==
  /\ \E query \in Queries, max_results \in MaxResultsChoices, q \in QueryOutcomes :
       svc_ret' = << search_jira_tickets(query, max_results, q) >>
  /\ svc_call' = "search_jira_tickets"
  /\ UNCHANGED << runnerVars, mainVars, graphVars, truncVars, pushVars, mcpVars, predVars, wfVars, svc_connected,
                  svc_status >>
  /\ health_ret' = << >>
  /\ svc_args' = << >>

GetGithubRepositoryInfo ==
  /\ \E repo \in Repos, q \in QueryOutcomes :
       svc_ret' = << get_github_repository_info(repo[1], repo[2], q) >>
  /\ svc_call' = "get_github_repository_info"
  /\ UNCHANGED << runnerVars, mainVars, graphVars, truncVars, pushVars, mcpVars, predVars, wfVars, svc_connected,
                  svc_status >>
  /\ health_ret' = << >>
  /\ svc_args' = << >>

SearchConfluenceDocs ==
  /\ \E search_query \in Queries \ { PyNone }, space_key \in Spaces, q \in QueryOutcomes :
       svc_ret' = << search_confluence_docs(search_query, space_key, q) >>
  /\ svc_call' = "search_confluence_docs"
  /\ UNCHANGED << runnerVars, mainVars, graphVars, truncVars, pushVars, mcpVars, predVars, wfVars, svc_connected,
                  svc_status >>
  /\ health_ret' = << >>
  /\ svc_args' = << >>

\* get_system_health, with the get_connection_status it awaits
GetSystemHealth ==
  /\ \E config_outcome \in ConfigOutcomes, conn \in ConnectionOutcomes :
       /\ health_ret' = << get_system_health(config_outcome, conn) >>
       /\ InitializeConnections(conn)
  /\ svc_call' = "get_system_health"
  /\ svc_ret' = << >>
  /\ svc_args' = << >>
  /\ UNCHANGED << runnerVars, mainVars, graphVars, truncVars, pushVars, mcpVars, predVars, wfVars >>

\* get_contextual_data_for_rfe with the get_connection_status it awaits; an
\* exception of get_connection_status leaves the method.  Inputs that are
\* never read (whether a connected service could connect, how a source that
\* is not queried would go) are held at one value.
GetContextualData ==
  /\ \E conn \in KnownServerOutcomes, has_repo \in BOOLEAN,
        outcome \in [DataTypes -> SourceOutcomes] :
       /\ svc_connected => conn.connects
       /\ \A t \in DataTypes :
            (conn.raises \/ t \notin Queried(conn.health, has_repo)) =>
              outcome[t] = "answers"
       /\ InitializeConnections(conn)
       /\ svc_args' = [health |-> conn.health, has_repo |-> has_repo,
                       outcome |-> outcome, raised |-> conn.raises]
       /\ svc_ret' = IF conn.raises THEN << >>
                     ELSE << get_contextual_data_for_rfe(conn.health, has_repo, outcome) >>
  /\ svc_call' = "get_contextual_data_for_rfe"
  /\ health_ret' = << >>
  /\ UNCHANGED << runnerVars, mainVars, graphVars, truncVars, pushVars, mcpVars, predVars, wfVars >>

Close ==
  /\ \E disconnect \in DisconnectOutcomes :
       LET after == close(svc_connected, svc_status, disconnect)
       IN  /\ svc_connected' = after.connected
           /\ svc_status' = after.status
           /\ svc_args' = [disconnect |-> after.disconnect]
  /\ svc_call' = "close"
  /\ svc_ret' = << >>
  /\ health_ret' = << >>
  /\ UNCHANGED << runnerVars, mainVars, graphVars, truncVars, pushVars, mcpVars, predVars, wfVars >>

NextService ==
  \/ SearchJiraTickets
  \/ GetGithubRepositoryInfo
  \/ SearchConfluenceDocs
  \/ GetSystemHealth
  \/ GetContextualData
  \/ Close

SpecService == InitService /\ [][NextService]_vars

\* ------------------------------- rfe-builder rfe_builder_workflow.py: routing
\* Requests are served by the one module-level workflow instance, so their
\* steps interleave at every await that suspends.
WfRequests == 1..MaxRequests

PHASE_1_ARTIFACTS == << "rfe_description", "feature_refinement" >>

NewRequest == [pc |-> "idle", routed |-> "", existing_artifacts |-> { }]

\* the test at the end of the reset-and-initialise prefix of start_rfe_builder
RoutesToEditing(generated, artifacts) == generated /\ artifacts # { }

AfterRouting(req, generated, artifacts) ==
  IF RoutesToEditing(generated, artifacts)
  THEN [pc |-> "edit", routed |-> "EditArtifactEvent", existing_artifacts |-> artifacts]
  ELSE [req EXCEPT !.pc = "agents"]

InitWorkflow ==
  /\ GraphIdle
  /\ RunnerIdle
  /\ TruncIdle
  /\ PushIdle
  /\ McpIdle
  /\ PredIdle
  /\ SvcIdle
  /\ MainIdle
  /\ wf_req = [r \in WfRequests |-> NewRequest]
  /\ artifacts_generated = FALSE
  /\ session_artifacts = { }
  /\ mcp_enabled = FALSE

\* start_rfe_builder up to its first suspending await: the state is reset;
\* with MCP enabled, or with an invalid configuration (initialisation
\* returns without suspending), the routing test follows at once
StartRfeBuilder(r) ==
  /\ wf_req[r].pc = "idle"
  /\ \E config_valid \in BOOLEAN :
       IF mcp_enabled \/ ~config_valid
       THEN /\ wf_req' = [wf_req EXCEPT ![r] = AfterRouting(@, FALSE, { })]
            /\ UNCHANGED mcp_enabled
       ELSE /\ wf_req' = [wf_req EXCEPT ![r].pc = "mcp_init"]
            /\ UNCHANGED mcp_enabled
  /\ artifacts_generated' = FALSE
  /\ session_artifacts' = { }
  /\ UNCHANGED << runnerVars, mainVars, graphVars, truncVars, pushVars, mcpVars, predVars, svcVars >>

\* initialize_mcp_integration returns after awaiting the MCP service; the
\* routing test reads the instance state as it is then
McpInitReturns(r) ==
  /\ wf_req[r].pc = "mcp_init"
  /\ \E initialized \in BOOLEAN : mcp_enabled' = initialized
  /\ wf_req' =
       [wf_req EXCEPT ![r] = AfterRouting(@, artifacts_generated, session_artifacts)]
  /\ UNCHANGED << runnerVars, mainVars, graphVars, truncVars, pushVars, mcpVars, predVars, svcVars,
                  artifacts_generated, session_artifacts >>

\* the agents are consulted and the final RFE is built
BuildFinalRfe(r) ==
  /\ wf_req[r].pc = "agents"
  /\ wf_req' =
       [wf_req EXCEPT ![r] = [@ EXCEPT !.pc = "generate_1",
                                       !.routed = "GenerateArtifactsEvent"]]
  /\ UNCHANGED << runnerVars, mainVars, graphVars, truncVars, pushVars, mcpVars, predVars, svcVars,
                  artifacts_generated, session_artifacts, mcp_enabled >>

\* generate_phase_1_artifacts: one artifact is generated and stored; after
\* the last one the artifacts are marked generated and the run stops
GenerateArtifact(r) ==
  /\ wf_req[r].pc \in { "generate_1", "generate_2" }
  /\ LET i == IF wf_req[r].pc = "generate_1" THEN 1 ELSE 2
     IN  /\ session_artifacts' = session_artifacts \cup { PHASE_1_ARTIFACTS[i] }
         /\ IF i = Len(PHASE_1_ARTIFACTS)
            THEN /\ artifacts_generated' = TRUE
                 /\ wf_req' = [wf_req EXCEPT ![r].pc = "stopped"]
            ELSE /\ UNCHANGED artifacts_generated
                 /\ wf_req' = [wf_req EXCEPT ![r].pc = "generate_2"]
  /\ UNCHANGED << runnerVars, mainVars, graphVars, truncVars, pushVars, mcpVars, predVars, svcVars,
                  mcp_enabled >>

\* edit_artifact: the target is read from the event's copy of the artifacts
\* (KeyError when it is not among them) and stored in the session
EditArtifact(r) ==
  /\ wf_req[r].pc = "edit"
  /\ \E target \in { "rfe_description", "feature_refinement" } :
       IF target \in wf_req[r].existing_artifacts
       THEN /\ session_artifacts' = session_artifacts \cup { target }
            /\ wf_req' = [wf_req EXCEPT ![r].pc = "stopped"]
       ELSE /\ UNCHANGED session_artifacts
            /\ wf_req' = [wf_req EXCEPT ![r].pc = "failed"]
  /\ UNCHANGED << runnerVars, mainVars, graphVars, truncVars, pushVars, mcpVars, predVars, svcVars,
                  artifacts_generated, mcp_enabled >>

NextWorkflow ==
  \E r \in WfRequests :
    \/ StartRfeBuilder(r)
    \/ McpInitReturns(r)
    \/ BuildFinalRfe(r)
    \/ GenerateArtifact(r)
    \/ EditArtifact(r)

SpecWorkflow == InitWorkflow /\ [][NextWorkflow]_vars

\* --------------------------------------------------- main(): the environment
Environments ==
  [AGENTIC_SESSION_NAME : { "", "session-1" },
   PROMPT : { "", "Analyze the pricing page" },
   ANTHROPIC_API_KEY : { "", "sk-test" },
   AGENT_PERSONA : { "", "PM" },
   WORKFLOW_PHASE : { "", "plan" },
   WEBSITE_URL : { "", "acme.com" }]

\* lines 866-877: WEBSITE_URL is required when AGENT_PERSONA is not set
RequiredVars(e) ==
  { "AGENTIC_SESSION_NAME", "PROMPT", "ANTHROPIC_API_KEY" }
  \cup (IF e.AGENT_PERSONA = "" THEN { "WEBSITE_URL" } ELSE { })

MissingVars(e) == { var \in RequiredVars(e) : e[var] = "" }

\* before ClaudeRunner() has read the environment
NoConfig ==
  [agent_persona |-> "", workflow_phase |-> "", spek_command |-> "", website_url |-> ""]

InitMain ==
  /\ GraphIdle
  /\ TruncIdle
  /\ PushIdle
  /\ McpIdle
  /\ PredIdle
  /\ SvcIdle
  /\ WfIdle
  /\ env \in Environments
  /\ pc = "main"
  /\ config = NoConfig
  /\ all_messages = << >>
  /\ response_text = << >>
  /\ pending = 0
  /\ result = << >>
  /\ exc = None
  /\ exitCode = -1
  /\ reports = << >>
  /\ flushState = "none"
  /\ events = << >>
  /\ origin = << >>
  /\ dropped_text = FALSE
  /\ interrupted = FALSE

\* main(), lines 866-884: exit with status 1 when a required variable is missing
ValidateEnvironment ==
  /\ pc = "main"
  /\ IF MissingVars(env) # { }
     THEN pc' = "exited" /\ exitCode' = 1
     ELSE pc' = "construct" /\ UNCHANGED exitCode
  /\ UNCHANGED << config, otherVars, result, exc, interrupted, streamVars, statusVars >>

\* ClaudeRunner.__init__, lines 41-58, called at line 887; the ValueError of
\* a missing API key ends main() with status 1 (lines 894-896).  Whether the
\* prompt holds a spek-kit command is an input.
ConstructRunner ==
  /\ pc = "construct"
  /\ IF env.ANTHROPIC_API_KEY = ""
     THEN pc' = "exited" /\ exitCode' = 1 /\ UNCHANGED config
     ELSE /\ \E spek_command \in { "", "specify" } :
               config' = [agent_persona |-> env.AGENT_PERSONA,
                          workflow_phase |-> env.WORKFLOW_PHASE,
                          spek_command |-> spek_command,
                          website_url |-> env.WEBSITE_URL]
          /\ pc' = "start"
          /\ UNCHANGED exitCode
  /\ UNCHANGED << otherVars, result, exc, interrupted, streamVars, statusVars >>

NextMain ==
  \/ ValidateEnvironment
  \/ ConstructRunner
  \/ VerifySetup
  \/ Dispatch
  \/ InitReport

SpecMain == InitMain /\ [][NextMain]_vars

\* ------------------------- langgraph-wrapper/runner/server.py: graph runner
\* One server process: the module globals, the asyncio tasks that /start and
\* /resume create, and the request handlers.  A task advances from one await
\* to the next in one step; handlers and tasks interleave at those awaits.

MaxUpdates == 2

RunIds == {"run-a", "run-b"}
Checkpoints == {"run-a:cp1", "cp2"}
GraphLoads == {"loaded", "no_entry", "load_failed"}
Nodes == {"plan", "act"}

\* the run id /resume falls back to: the part of the checkpoint id before ":",
\* or the whole id when it has none
RunIdOfCheckpoint(cp) == IF cp = "run-a:cp1" THEN "run-a" ELSE cp

Running(t) == tasks[t].pc \in {"start", "loop", "check"}
Done(t) == tasks[t].pc \in {"finished", "paused", "raised", "cancelled"}
TaskIds == 1..Len(tasks)

\* emit_event: skipped without a run id; the event carries the global _run_id
emit_event(t, event_type, node) ==
  IF _run_id = ""
    THEN emitted' = emitted
    ELSE emitted' = [emitted EXCEPT
           ![t] = Append(@, [run_id |-> _run_id, type |-> event_type,
                             node |-> node])]

Updates(t) ==
  Cardinality({i \in 1..Len(emitted[t]) : emitted[t][i].type = "node_update"})

SetPc(t, p) == tasks' = [tasks EXCEPT ![t].pc = p]

InitGraph ==
  /\ RunnerIdle
  /\ TruncIdle /\ PushIdle /\ McpIdle /\ PredIdle /\ SvcIdle /\ WfIdle /\ MainIdle
  /\ GraphIdle

GraphUnchanged == UNCHANGED << runnerVars, truncVars, pushVars, mcpVars, predVars,
                               svcVars, wfVars, mainVars >>

\* the runs explored create at most one task per run id
CanCreateTask == Len(tasks) < Cardinality(RunIds)

\* create_task(stream_graph(inputs, run_id)): the new task replaces the global
CreateStreamTask(run_id) ==
  /\ tasks' = Append(tasks, [run_id |-> run_id, pc |-> "start",
                             produced |-> << >>])
  /\ emitted' = Append(emitted, << >>)
  /\ _stream_task' = Len(tasks) + 1

\* POST /start
StartRun ==
  /\ CanCreateTask
  /\ \E rid \in RunIds, load \in (IF _graph THEN {"loaded"} ELSE GraphLoads) :
       IF load # "loaded"
         THEN /\ http' = [endpoint |-> "/start", status |-> 400]
              /\ UNCHANGED << _graph, _run_id, _stream_task, tasks, emitted, stopped >>
         ELSE /\ _graph' = TRUE
              /\ _run_id' = rid
              /\ CreateStreamTask(rid)
              /\ stopped' = FALSE
              /\ http' = [endpoint |-> "/start", status |-> 200]
  /\ UNCHANGED stop_call
  /\ GraphUnchanged

\* POST /resume
ResumeRun ==
  /\ CanCreateTask
  /\ \E cp \in Checkpoints, load \in (IF _graph THEN {"loaded"} ELSE GraphLoads),
        state_ok \in BOOLEAN :
       IF load # "loaded"
         THEN /\ http' = [endpoint |-> "/resume", status |-> 400]
              /\ UNCHANGED << _graph, _run_id, _stream_task, tasks, emitted, stopped >>
         ELSE /\ _graph' = TRUE
              /\ _run_id' = (IF _run_id = "" THEN RunIdOfCheckpoint(cp) ELSE _run_id)
              /\ IF state_ok
                   THEN /\ CreateStreamTask(_run_id')
                        /\ stopped' = FALSE
                        /\ http' = [endpoint |-> "/resume", status |-> 200]
                   ELSE /\ http' = [endpoint |-> "/resume", status |-> 500]
                        /\ UNCHANGED << _stream_task, tasks, emitted, stopped >>
  /\ UNCHANGED stop_call
  /\ GraphUnchanged

\* stream_graph: emit node_start, then iterate the graph's stream
EmitNodeStart(t) ==
  /\ tasks[t].pc = "start"
  /\ emit_event(t, "node_start", "")
  /\ SetPc(t, "loop")
  /\ UNCHANGED << _graph, _run_id, _stream_task, stop_call, http, stopped >>
  /\ GraphUnchanged

\* the stream yields a node's update: node_update is emitted
EmitNodeUpdate(t) ==
  /\ tasks[t].pc = "loop"
  /\ Updates(t) < MaxUpdates
  /\ \E node \in Nodes :
       /\ emit_event(t, "node_update", node)
       /\ tasks' = [tasks EXCEPT ![t].pc = "check",
                                 ![t].produced = Append(@, node)]
  /\ UNCHANGED << _graph, _run_id, _stream_task, stop_call, http, stopped >>
  /\ GraphUnchanged

\* an interrupt that is reported while the stream goes on
CheckInterruptContinues(t) ==
  /\ tasks[t].pc = "check"
  /\ \E interrupt \in BOOLEAN, next_node \in Nodes :
       IF interrupt
         THEN /\ emit_event(t, "interrupt", next_node)
              /\ SetPc(t, "loop")
         ELSE /\ emitted' = emitted
              /\ SetPc(t, "loop")
  /\ UNCHANGED << _graph, _run_id, _stream_task, stop_call, http, stopped >>
  /\ GraphUnchanged

\* aget_state after the update: an interrupt ends the execution with its event
CheckInterrupt(t) ==
  /\ tasks[t].pc = "check"
  /\ \E interrupt \in BOOLEAN, next_node \in Nodes :
       IF interrupt
         THEN /\ emit_event(t, "interrupt", next_node)
              /\ SetPc(t, "paused")
         ELSE /\ emitted' = emitted
              /\ SetPc(t, "loop")
  /\ UNCHANGED << _graph, _run_id, _stream_task, stop_call, http, stopped >>
  /\ GraphUnchanged

\* the stream is exhausted: node_end
EmitNodeEnd(t) ==
  /\ tasks[t].pc = "loop"
  /\ emit_event(t, "node_end", "")
  /\ SetPc(t, "finished")
  /\ UNCHANGED << _graph, _run_id, _stream_task, stop_call, http, stopped >>
  /\ GraphUnchanged

\* the stream or aget_state raises: the error event, then the re-raise
GraphRaises(t) ==
  /\ tasks[t].pc \in {"loop", "check"}
  /\ emit_event(t, "error", "")
  /\ SetPc(t, "raised")
  /\ UNCHANGED << _graph, _run_id, _stream_task, stop_call, http, stopped >>
  /\ GraphUnchanged

\* POST /stop, up to its await: cancel() of the global task
StopCancels ==
  /\ stop_call.pc = "idle"
  /\ IF _stream_task = 0
       THEN /\ http' = [endpoint |-> "/stop", status |-> 200]
            /\ stopped' = TRUE
            /\ UNCHANGED << tasks, stop_call >>
       ELSE /\ stop_call' = [pc |-> "await", task |-> _stream_task]
            /\ tasks' = IF Running(_stream_task)
                          THEN [tasks EXCEPT ![_stream_task].pc = "cancelling"]
                          ELSE tasks
            /\ UNCHANGED << http, stopped >>
  /\ UNCHANGED << _graph, _run_id, _stream_task, emitted >>
  /\ GraphUnchanged

\* CancelledError is thrown into the task at the await it is suspended on
TaskCancelled(t) ==
  /\ tasks[t].pc = "cancelling"
  /\ SetPc(t, "cancelled")
  /\ UNCHANGED << _graph, _run_id, _stream_task, emitted, stop_call, http, stopped >>
  /\ GraphUnchanged

\* await _stream_task: CancelledError is passed over, any other exception of
\* the task is raised again by the await
StopAwaitStatus(t) == IF tasks[t].pc = "raised" THEN 500 ELSE 200

StopReturns ==
  /\ stop_call.pc = "await"
  /\ Done(stop_call.task)
  /\ http' = [endpoint |-> "/stop", status |-> StopAwaitStatus(stop_call.task)]
  /\ stopped' = (StopAwaitStatus(stop_call.task) = 200)
  /\ stop_call' = NoStop
  /\ UNCHANGED << _graph, _run_id, _stream_task, tasks, emitted >>
  /\ GraphUnchanged

NextGraph ==
  \/ StartRun
  \/ ResumeRun
  \/ StopCancels
  \/ StopReturns
  \/ \E t \in TaskIds : EmitNodeStart(t)
  \/ \E t \in TaskIds : EmitNodeUpdate(t)
  \/ \E t \in TaskIds : CheckInterrupt(t)
  \/ \E t \in TaskIds : EmitNodeEnd(t)
  \/ \E t \in TaskIds : GraphRaises(t)
  \/ \E t \in TaskIds : TaskCancelled(t)

SpecGraph == InitGraph /\ [][NextGraph]_vars


\* =================================================================== claims
Last(seq) == seq[Len(seq)]
Terminal(phase) == phase \in {"Completed", "Failed"}
TerminalReports == { i \in 1..Len(reports) : Terminal(reports[i].phase) }

\* C1 (as claimed): every session that has reported Running and whose process
\* has exited has sent exactly one terminal report (Completed or Failed), and
\* that report is the last one: the last reported phase is never Running.
C1_ExactlyOneTerminalReport ==
  (pc = "exited" /\ reports # << >>) =>
    /\ Cardinality(TerminalReports) = 1
    /\ Terminal(Last(reports).phase)

\* C2: no status report with another phase follows a terminal report.
C2_NoReportLeavesTerminalPhase ==
  \A i, j \in 1..Len(reports) :
    (i < j /\ Terminal(reports[i].phase)) => reports[j].phase = reports[i].phase

\* C2 witness: a terminal report went out after two Running reports and the
\* session ran on to its exit.
C2_Witness ==
  /\ pc = "exited"
  /\ Len(reports) >= 3
  /\ Terminal(Last(reports).phase)
  /\ reports[1].phase = "Running"

IsToolUseMsg(m) == "tool_use_name" \in DOMAIN m
IsStandaloneResult(m) == "tool_use_id" \in DOMAIN m /\ "tool_use_name" \notin DOMAIN m
OpenToolUses(log, id) ==
  { i \in 1..Len(log) :
      IsToolUseMsg(log[i]) /\ log[i].tool_use_id = id /\ "content" \notin DOMAIN log[i] }
StandaloneCount(log, id) ==
  Cardinality({ i \in 1..Len(log) : IsStandaloneResult(log[i]) /\ log[i].tool_use_id = id })
MessagesFor(log, id) ==
  Cardinality({ i \in 1..Len(log) :
                  "tool_use_id" \in DOMAIN log[i] /\ log[i].tool_use_id = id })
HighestOf(S) == CHOOSE i \in S : \A j \in S : j <= i
\* this step is the loop body handling one block that is a tool result
ResultStep ==
  /\ pc = "blocks"
  /\ Len(events') = Len(events) + 1
  /\ "tool_use_id" \in DOMAIN Last(events')

C5_UnmatchedResultAppendsOne ==
  [][ ResultStep =>
        LET b == Last(events')
        IN IF OpenToolUses(all_messages, b.tool_use_id) = {}
             THEN /\ Len(all_messages') = Len(all_messages) + 1
                  /\ SubSeq(all_messages', 1, Len(all_messages)) = all_messages
                  /\ Last(all_messages') =
                       [content |-> Truncate(b.content), tool_use_id |-> b.tool_use_id,
                        tool_use_is_error |-> b.is_error]
             ELSE Len(all_messages') = Len(all_messages) ]_vars

\* C5 witness: a second result for an id whose tool use was already filled
\* stands alone behind it.
C5_Witness ==
  \E i, j \in 1..Len(all_messages) :
    /\ i < j
    /\ IsToolUseMsg(all_messages[i]) /\ "content" \in DOMAIN all_messages[i]
    /\ IsStandaloneResult(all_messages[j])
    /\ all_messages[j].tool_use_id = all_messages[i].tool_use_id

\* C6: a paired result goes into the latest unfilled tool-use message with its
\* id and touches no other message; a message that holds a content (a filled
\* tool use, a standalone result, a text) is never changed again.
C6_PairingLatestFirstAndFinal ==
  [][ /\ \A i \in 1..Len(all_messages) :
           "content" \in DOMAIN all_messages[i] =>
             (i <= Len(all_messages') /\ all_messages'[i] = all_messages[i])
      /\ (ResultStep /\ OpenToolUses(all_messages, Last(events').tool_use_id) # {}) =>
           LET k == HighestOf(OpenToolUses(all_messages, Last(events').tool_use_id))
           IN /\ "content" \in DOMAIN all_messages'[k]
              /\ \A i \in 1..Len(all_messages) \ {k} : all_messages'[i] = all_messages[i]
    ]_vars

\* C6 witness: of two tool-use messages with one id the later one is filled and
\* the earlier one is still open.
C6_Witness ==
  \E i, j \in 1..Len(all_messages) :
    /\ i < j
    /\ IsToolUseMsg(all_messages[i]) /\ IsToolUseMsg(all_messages[j])
    /\ all_messages[i].tool_use_id = all_messages[j].tool_use_id
    /\ "content" \notin DOMAIN all_messages[i]
    /\ "content" \in DOMAIN all_messages[j]

\* ---- text-only streams
OnlyTextSoFar == events # << >> /\ \A i \in 1..Len(events) : IsText(events[i])
RECURSIVE TextsOf(_)
TextsOf(blocks) ==
  IF blocks = << >> THEN << >> ELSE << Head(blocks).text >> \o TextsOf(Tail(blocks))
RECURSIVE OneMessagePerNonBlank(_)
OneMessagePerNonBlank(texts) ==
  IF texts = << >> THEN << >>
  ELSE IF Strip(Head(texts)) = << >> THEN OneMessagePerNonBlank(Tail(texts))
  ELSE << [content |-> Strip(Head(texts))] >> \o OneMessagePerNonBlank(Tail(texts))

C8_LogAppendOnlyInArrivalOrder ==
  [][ /\ Len(all_messages') >= Len(all_messages)
      /\ Len(origin') = Len(all_messages')
      /\ \A i \in 1..Len(all_messages) :
           /\ origin'[i] = origin[i]
           /\ DOMAIN all_messages[i] \subseteq DOMAIN all_messages'[i]
           /\ \A k \in DOMAIN all_messages[i] : all_messages'[i][k] = all_messages[i][k]
      /\ \A i, j \in 1..Len(origin') : i < j => origin'[i] < origin'[j]
    ]_vars

\* C8 witness: a tool use, a text and the tool's result arrived; the result
\* filled the first message in place, behind it stands the text.
C8_Witness ==
  /\ Len(events) = 3
  /\ origin = << 1, 2 >>
  /\ IsToolUseMsg(all_messages[1]) /\ "content" \in DOMAIN all_messages[1]
  /\ ~IsToolUseMsg(all_messages[2])

\* this step is a status update that carries the message list
FlushStep == pc \in {"flush", "complete"} /\ Len(reports') = Len(reports) + 1

\* C9: a status update that carries the messages leaves the list in memory as
\* it is, whether or not the backend takes it, and carries the whole list: all
\* messages appended so far, also those an earlier failed update carried.
C9_FlushCarriesWholeLog ==
  [][ FlushStep =>
        /\ all_messages' = all_messages
        /\ "messages" \in DOMAIN Last(reports')
        /\ Last(reports').messages = all_messages ]_vars

\* C9 witness: an earlier update failed, and the newest update, which the
\* backend took, carried more than one message, all of the log.
C9_Witness ==
  /\ flushState = "ok_after_failed"
  /\ pc = "stream"
  /\ Len(all_messages) >= 2
  /\ Last(reports).messages = all_messages

\* C10 (as claimed), for what follows the inference: once _run_claude_code has
\* returned its result, no later failure makes the session end Failed: a
\* session that is not interrupted ends with Completed as its last report.
C10_FailuresAfterInferenceAbsorbed ==
  (pc = "exited" /\ ~interrupted /\ result # << >>) =>
    /\ reports # << >>
    /\ Last(reports).phase = "Completed"

\* where a handler goes on after each of its Running reports
AfterRunningReport(at) ==
  CASE at = "handler_init" -> IF Handler = "standard" THEN "second_report" ELSE "setup_workspace"
    [] at = "second_report" ->
         (CASE Handler = "agent" -> "agent_workspace"
            [] Handler = "spek" -> "spek_command"
            [] OTHER -> "run_claude")
    [] OTHER -> "stream"
RunningReportStep ==
  Len(reports') = Len(reports) + 1 /\ Last(reports').phase = "Running"

\* C11: a Running status report never aborts the session, whether the backend
\* takes it or not: the step that sends it raises nothing, leaves the log and
\* the events processed so far as they are and goes on at the statement after
\* the report; and a session whose handler has returned has sent Completed as
\* its last report, whatever became of its earlier reports.
C11_FailedReportNeverAborts ==
  /\ [][ RunningReportStep =>
           /\ pc' = AfterRunningReport(pc)
           /\ exc' = exc
           /\ << all_messages, response_text, events, pending >>'
                = << all_messages, response_text, events, pending >> ]_vars
  /\ [](pc = "returned" =>
          /\ Last(reports).phase = "Completed"
          /\ Last(reports).messages = all_messages)

\* C11 witness: a Running report failed, and the run went on: after the first
\* update that carried messages it processed more blocks, three in all, and
\* returned after a Completed report that the backend took.
C11_Witness ==
  /\ pc = "returned"
  /\ Len(events) = 3
  /\ Len(reports) = 5
  /\ flushState = "ok_after_failed"
  /\ Len(reports[3].messages) < Len(all_messages)

\* C12 (as claimed): every tool-use block whose input json.dumps rejects is in
\* the log all the same, as a tool-use message with its id and the placeholder
\* "<unserializable tool input>" for the input.
C12_UnserializableRecordedWithSentinel ==
  \A i \in 1..Len(events) :
    JsonDumpsRaises(events[i]) =>
      \E k \in 1..Len(all_messages) :
        /\ IsToolUseMsg(all_messages[k])
        /\ all_messages[k].tool_use_id = events[i].id
        /\ all_messages[k].tool_use_input = "<unserializable tool input>"

\* C13 (as claimed), for the message flush: when the Failed report of an engine
\* error has been sent and blocks had reached the log before the error, an
\* earlier status update carried the log as it stood at the error.
C13_FlushBeforeFailedReport ==
  ( /\ reports # << >>
    /\ Last(reports).phase = "Failed"
    /\ exc \in EngineErrors
    /\ all_messages # << >> )
  => \E i \in 1..(Len(reports) - 1) :
       /\ "messages" \in DOMAIN reports[i]
       /\ reports[i].messages = all_messages

\* the status updates sent so far that carried the message at place k of the log
CarriedAt(k) ==
  { i \in 1..Len(reports) :
      "messages" \in DOMAIN reports[i] /\ Len(reports[i].messages) >= k }

\* C14 (as claimed): whenever the loop is about to take the next stream message
\* from the engine, every tool-use message of the log has gone out with a
\* status update, whatever came in the same stream message.
C14_ToolUseFlushedBeforeNextMessage ==
  pc = "stream" =>
    \A k \in 1..Len(all_messages) :
      IsToolUseMsg(all_messages[k]) =>
        \E i \in CarriedAt(k) :
          /\ IsToolUseMsg(reports[i].messages[k])
          /\ reports[i].messages[k].tool_use_id = all_messages[k].tool_use_id

\* the content the log holds for the tool result that was stored
StoredContent ==
  LET k == CHOOSE k \in 1..Len(trunc_messages) : "content" \in DOMAIN trunc_messages[k]
  IN  trunc_messages[k].content

\* C15: the content stored for a tool result is the original content when that
\* has at most TruncCap characters; otherwise it is the original's first
\* TruncCap characters followed by the truncation marker; so it is never longer
\* than TruncCap plus the marker's length.
C15_StoredContentTruncatedAtCap ==
  trunc_pc = "stored" =>
    LET orig == trunc_block.content
        kept == StoredContent
    IN  /\ Len(kept) <= TruncCap + Len(TruncMarker)
        /\ Len(orig) <= TruncCap => kept = orig
        /\ Len(orig) > TruncCap =>
             /\ Len(kept) = TruncCap + Len(TruncMarker)
             /\ \A i \in 1..TruncCap : kept[i] = orig[i]
             /\ \A j \in 1..Len(TruncMarker) : kept[TruncCap + j] = TruncMarker[j]

\* C15 witness: a tool result one character over the cap was merged into its
\* tool use and lost that character to the marker; one of exactly the cap's
\* length would have been kept whole.
C15_Witness ==
  /\ trunc_pc = "stored"
  /\ Len(trunc_block.content) = TruncCap + 1
  /\ Len(trunc_messages) = 1
  /\ IsToolUseMsg(trunc_messages[1])
  /\ Len(StoredContent) = TruncCap + Len(TruncMarker)

\* this step sends a status update that carries messages while the stream runs
StreamFlushStep ==
  /\ Len(reports') = Len(reports) + 1
  /\ Last(reports').phase = "Running"
  /\ "messages" \in DOMAIN Last(reports')
NoBlockRaised == \A i \in 1..Len(events) : ~JsonDumpsRaises(events[i])

\* C16: the stream is handled one event at a time.  The log changes only in
\* the loop body, one block per step; a status update with messages is sent
\* only when no block of the current stream message is left, and sending it
\* changes neither the log nor the loop's position in the message; the next
\* stream message is taken only when no block is left and no update is due; and
\* when the next message is about to be taken after blocks that all were
\* handled, an update has carried the log as it stands.
C16_OneEventAtATime ==
  /\ [][ /\ all_messages' # all_messages =>
             (pc = "run_claude" \/ (pc = "blocks" /\ Len(events') = Len(events) + 1))
         /\ StreamFlushStep =>
             (pending = 0 /\ pending' = 0 /\ all_messages' = all_messages
                /\ events' = events /\ Last(reports').messages = all_messages)
         /\ pending' > pending => (pending = 0 /\ pc = "stream") ]_vars
  /\ []( (pc = "stream" /\ events # << >> /\ NoBlockRaised) =>
           \E i \in 1..Len(reports) :
             "messages" \in DOMAIN reports[i] /\ reports[i].messages = all_messages )

\* C16 witness: a stream message of two blocks was handled and its update
\* sent, carrying both messages, and the loop has taken the next stream
\* message, of which no block is handled yet.
C16_Witness ==
  /\ pc = "blocks"
  /\ pending = 1
  /\ Len(events) = 2
  /\ Len(all_messages) = 2
  /\ Len(reports) = 3
  /\ reports[3].messages = all_messages

RegularFiles == { i \in 1..Len(local_files) : local_files[i].kind # "dir" }
AttemptedPaths == { write_attempts[k].path : k \in 1..Len(write_attempts) }
StoredPaths == { f.path : f \in remote_store }

\* C18: when a push to a set remote root is done, a write was attempted for
\* every regular file, once each and in walk order, also for every file behind
\* one whose write failed; and the remote store holds exactly the files whose
\* write succeeded.
C18_PushIsolatedPerFile ==
  (push_pc = "done" /\ remote_root # "") =>
    /\ Len(write_attempts) = Cardinality(RegularFiles)
    /\ \A k \in RegularFiles :
         /\ RemotePath(k) \in AttemptedPaths
         /\ local_files[k].accepted = (RemotePath(k) \in StoredPaths)
    /\ \A k \in RegularFiles : ~local_files[k].accepted =>
         \A j \in RegularFiles : j > k => RemotePath(j) \in AttemptedPaths
    /\ \A a, b \in 1..Len(write_attempts) :
         a < b => write_attempts[a].path # write_attempts[b].path

\* C18 witness: the write of the first of three files failed, and the push
\* ended with the two files behind it in the remote store.
C18_Witness ==
  /\ push_pc = "done"
  /\ Len(local_files) = 3
  /\ local_files[1].kind = "text" /\ ~local_files[1].accepted
  /\ StoredPaths = {RemotePath(2), RemotePath(3)}

C20_OneResponsePerRequest ==
  mcp_pc = "done" =>
    IF Method = "notifications/initialized"
      THEN responses = << >>
      ELSE /\ Len(responses) = 1
           /\ {"jsonrpc", "id"} \subseteq DOMAIN responses[1]
           /\ responses[1].jsonrpc = "2.0"
           /\ responses[1].id = (IF "id" \in DOMAIN request THEN request.id ELSE None)
           /\ ("result" \in DOMAIN responses[1]) # ("error" \in DOMAIN responses[1])

\* C20 witness: a tools/call of an unknown tool with id "2" was answered by an
\* error response that carries the id "2".
C20_Witness ==
  /\ mcp_pc = "done"
  /\ Method = "tools/call"
  /\ ToolName = "rm"
  /\ Len(responses) = 1
  /\ "error" \in DOMAIN responses[1]
  /\ responses[1].id = "2"

\* text s holds text sub
Contains(s, sub) ==
  \E i \in 1..(Len(s) - Len(sub) + 1) : SubSeq(s, i, i + Len(sub) - 1) = sub
ExitCodeMarker(code) == "[Exit code: " \o ToString(code) \o "]"
\* handle_mcp_request has returned from a tools/call of the exec tool
ExecAnswered == mcp_pc = "done" /\ exec_results # << >>

\* C21: in the response to a tools/call of exec, isError is true exactly when
\* the command did not succeed; the output text holds the command's stdout;
\* and it holds "[Exit code: N]", N being the command's exit code, exactly when
\* the command did not succeed.
C21_ExecResponseReflectsResult ==
  ExecAnswered =>
    LET res == exec_results[1]
        answer == responses[1].result
        text == answer.content[1].text
    IN  /\ Len(answer.content) = 1
        /\ answer.isError = ~res.success
        /\ Contains(text, res.stdout)
        /\ Contains(text, ExitCodeMarker(res.exit_code)) = ~res.success

\* C21 witness: a command wrote to stdout and ended with return code 2; the
\* response is an error whose text opens with that output and names the code.
C21_Witness ==
  /\ ExecAnswered
  /\ proc.state = "exited" /\ proc.returncode = 2 /\ proc.stdout = << "a", ".", "t" >>
  /\ responses[1].result.isError
  /\ Contains(responses[1].result.content[1].text, "a.t")
  /\ Contains(responses[1].result.content[1].text, "[Exit code: 2]")

\* exec_via_kubectl has returned
KubectlReturned == mcp_pc = "exec_done" /\ exec_mode = "kubectl"

\* C22: exec_via_kubectl returns a result in every case.  When the subprocess
\* ran to its end, success says whether the return code is 0, and exit_code,
\* stdout and stderr are the subprocess's return code and decoded output; when
\* POD_NAME is unset the result is a failure with exit_code 1 and no
\* subprocess was started.
C22_KubectlReportsSubprocess ==
  /\ mcp_pc = "exec_done" => Len(exec_results) = 1
  /\ KubectlReturned =>
       LET res == exec_results[1]
       IN  /\ {"success", "stdout", "stderr", "exit_code"} \subseteq DOMAIN res
           /\ proc.state = "exited" =>
                /\ res.success = (proc.returncode = 0)
                /\ res.exit_code = proc.returncode
                /\ res.stdout = Decode(proc.stdout)
                /\ res.stderr = Decode(proc.stderr)
           /\ pod_name = "" =>
                /\ ~res.success
                /\ res.exit_code = 1
                /\ proc.state = "none"

\* C22 witness: kubectl exec ran to its end with return code 2 and output on
\* both streams, and the result reports just that.
C22_Witness ==
  /\ KubectlReturned
  /\ proc.state = "exited" /\ proc.returncode = 2
  /\ proc.stdout # << >> /\ proc.stderr # << >>
  /\ ~exec_results[1].success
  /\ exec_results[1].exit_code = 2

\* ---- fallback responses of the RFE builder
FallbackModels == { "RFEAnalysis", "Synthesis", "ComponentTeamsList", "Architecture" }
FallbackCallDone ==
  /\ pred_call.fn = "create_fallback_response"
  /\ pred_call.output_cls \in FallbackModels
  /\ pred_pc \in { "returned", "raised" }

\* C23: for each of RFEAnalysis, Synthesis, ComponentTeamsList and
\* Architecture, every persona and every error message,
\* create_fallback_response returns (never raises) an instance of that model
\* whose dump holds every field of the model with a value of the field's
\* type; where the model has a persona field it equals the given persona.
C23_FallbackIsValidInstance ==
  FallbackCallDone =>
    /\ pred_pc = "returned"
    /\ pred_raised = ""
    /\ Len(pred_ret) = 1
    /\ pred_ret[1].kind = "model"
    /\ pred_ret[1].cls = pred_call.output_cls
    /\ \A f \in DOMAIN ModelFields(pred_call.output_cls) :
         /\ f \in DOMAIN pred_ret[1].data
         /\ Accepts(ModelFields(pred_call.output_cls)[f], pred_ret[1].data[f])
    /\ "persona" \in DOMAIN ModelFields(pred_call.output_cls) =>
         pred_ret[1].data["persona"] = StrVal(pred_call.persona)

\* a fallback RFEAnalysis was returned for the persona PRODUCT_MANAGER
C23_Witness ==
  /\ FallbackCallDone
  /\ pred_call.output_cls = "RFEAnalysis"
  /\ pred_call.persona = "PRODUCT_MANAGER"
  /\ error_msg = "Test error"
  /\ Len(pred_ret) = 1
  /\ pred_ret[1].data["analysis"] = StrVal("Test error")

\* ---- safe_structured_predict
PredictDone ==
  /\ pred_call.fn = "safe_structured_predict"
  /\ pred_pc \in { "returned", "raised" }

IsCompleteInstance(r, cls) ==
  /\ r.kind = "model"
  /\ r.cls = cls
  /\ DOMAIN ModelFields(cls) \subseteq DOMAIN r.data

\* C24: safe_structured_predict never raises: when the LLM call raised or
\* returned a response that fails structural validation it returns a
\* fallback instance of output_cls, and when the response is structurally
\* valid it returns that response unchanged.
C24_PredictNeverRaises ==
  PredictDone =>
    /\ pred_pc = "returned"
    /\ pred_raised = ""
    /\ Len(pred_ret) = 1
    /\ IF response # << >> /\ IsCompleteInstance(response[1], pred_call.output_cls)
       THEN pred_ret[1] = response[1]
       ELSE /\ IsCompleteInstance(pred_ret[1], pred_call.output_cls)
            /\ "persona" \in DOMAIN pred_ret[1].data =>
                 pred_ret[1].data["persona"] = StrVal(pred_call.persona)

\* ---- validate_structured_response
ValidateDone ==
  /\ pred_call.fn = "validate_structured_response"
  /\ pred_pc = "returned"

\* C25: validate_structured_response never raises; it returns false for a
\* response without model_dump (a string, None, a plain object) and for one
\* whose dump raises, and for any other response returns true exactly when
\* every field of the expected model is a key of the dump.
C25_ValidateIsFieldPresence ==
  /\ pred_call.fn = "validate_structured_response" =>
       pred_pc = "returned" /\ pred_raised = "" /\ Len(valid_ret) = 1
  /\ ValidateDone =>
       IF response[1].kind \in { "str", "NoneType", "object", "dump_raises" }
       THEN valid_ret[1] = FALSE
       ELSE valid_ret[1] =
              (\A f \in DOMAIN ModelFields(pred_call.output_cls) :
                 f \in DOMAIN response[1].data)

\* an RFEAnalysis lacking one field was validated against RFEAnalysis
C25_Witness ==
  /\ ValidateDone
  /\ pred_call.output_cls = "RFEAnalysis"
  /\ response[1].kind = "model"
  /\ response[1].cls = "RFEAnalysis"
  /\ "concerns" \notin DOMAIN response[1].data
  /\ valid_ret = << FALSE >>

\* ---- MCP search operations of the RFE builder
\* C26: every MCP search operation returns, on every outcome of the query
\* (success, MCP error, connection error, unexpected error), a dict holding
\* its fixed keys: search_jira_tickets success, tickets and timestamp;
\* get_github_repository_info success, repository, owner and name;
\* search_confluence_docs success, documents and query.
C26_SearchResultShape ==
  /\ svc_call = "search_jira_tickets" =>
       /\ Len(svc_ret) = 1
       /\ { "success", "tickets", "timestamp" } \subseteq DOMAIN svc_ret[1]
  /\ svc_call = "get_github_repository_info" =>
       /\ Len(svc_ret) = 1
       /\ { "success", "repository", "owner", "name" } \subseteq DOMAIN svc_ret[1]
  /\ svc_call = "search_confluence_docs" =>
       /\ Len(svc_ret) = 1
       /\ { "success", "documents", "query" } \subseteq DOMAIN svc_ret[1]

\* ---- system health
HealthyComponents(h) ==
  { c \in DOMAIN h.components : h.components[c].status = "healthy" }

\* C27: get_system_health always returns a record with timestamp, components
\* and an overall_status that is healthy iff every component is healthy,
\* degraded iff some but not all components are healthy and unhealthy
\* otherwise (never "unknown"); when the connection status was obtained, the
\* mcp_connections component is healthy iff healthy_count = total_count > 0,
\* degraded iff otherwise healthy_count > 0, unhealthy iff healthy_count = 0.
C27_HealthStatus ==
  /\ svc_call = "get_system_health" => Len(health_ret) = 1
  /\ health_ret # << >> =>
       LET h == health_ret[1]
           m == h.components["mcp_connections"]
       IN  /\ { "timestamp", "components", "overall_status" } \subseteq DOMAIN h
           /\ h.overall_status \in { "healthy", "degraded", "unhealthy" }
           /\ (h.overall_status = "healthy") =
                (HealthyComponents(h) = DOMAIN h.components)
           /\ (h.overall_status = "degraded") =
                /\ HealthyComponents(h) # { }
                /\ HealthyComponents(h) # DOMAIN h.components
           /\ (h.overall_status = "unhealthy") = (HealthyComponents(h) = { })
           /\ ("healthy_servers" \in DOMAIN m) = (m.status # "error")
           /\ "healthy_servers" \in DOMAIN m =>
                /\ (m.status = "healthy") =
                     (m.healthy_servers = m.total_servers /\ m.total_servers > 0)
                /\ (m.status = "degraded") =
                     /\ ~(m.healthy_servers = m.total_servers /\ m.total_servers > 0)
                     /\ m.healthy_servers > 0
                /\ (m.status = "unhealthy") = (m.healthy_servers = 0)

\* a valid configuration with one of two known servers healthy: degraded
C27_Witness ==
  /\ svc_call = "get_system_health"
  /\ health_ret # << >>
  /\ health_ret[1].components["mcp_config"].status = "healthy"
  /\ health_ret[1].components["mcp_connections"].status = "degraded"
  /\ health_ret[1].components["mcp_connections"].healthy_servers = 1
  /\ health_ret[1].components["mcp_connections"].total_servers = 2
  /\ health_ret[1].overall_status = "degraded"

\* ---- routing of RFE builder requests
\* C28: start_rfe_builder never routes a request to editing, also when
\* requests are handled concurrently by the shared workflow instance: no
\* request's step returns EditArtifactEvent.
C28_NeverRoutesToEditing ==
  \A r \in DOMAIN wf_req : wf_req[r].routed # "EditArtifactEvent"

\* ---- the environment of non-agent sessions
RunnerConstructed == pc \notin { "main", "construct", "exited" }
SessionSelected == RunnerConstructed /\ pc \notin { "start", "dispatch" }

\* C29: a non-agent session never runs with an empty WEBSITE_URL: when
\* WEBSITE_URL is missing, either the session selected is the agent RFE
\* session, or main() has exited with status 1 before the runner was
\* constructed and before any status report.
C29_NonAgentSessionHasWebsiteUrl ==
  /\ (SessionSelected /\ Handler # "agent") => config.website_url # ""
  /\ (env.WEBSITE_URL = "" /\ ~(env.AGENT_PERSONA # "" /\ env.WORKFLOW_PHASE # "")) =>
       /\ ~RunnerConstructed
       /\ reports = << >>
       /\ pc = "exited" => exitCode = 1

\* ---- exceptions of the loop body
\* the step in which a block's processing raises
ProcessingRaises ==
  /\ pc = "blocks"
  /\ Len(events') = Len(events) + 1
  /\ JsonDumpsRaises(events'[Len(events')])

\* C30: an exception raised while a stream message is processed is contained
\* to that message: the loop goes on to the next stream message with the log
\* as it was, no exception in flight and nothing reported, and the session is
\* never Failed for the exception alone, that is, for an empty result when
\* the blocks the exception skipped held text.
C30_ProcessingErrorContained ==
  /\ [][ProcessingRaises =>
          /\ pc' = "stream"
          /\ all_messages' = all_messages
          /\ exc' = exc
          /\ reports' = reports]_vars
  /\ [](exc = EmptyResultError => ~dropped_text)

\* ---- events of a streamed agent analysis
StreamCall == pred_call.fn = "stream_structured_predict_with_events"
CompleteEvents == { i \in 1..Len(yielded) : yielded[i].type = "complete" }

\* C31: whatever the prediction does (valid response, fallback, exception),
\* stream_structured_predict_with_events never raises, yields at most one
\* "complete" event and nothing after it, and when it is exhausted it has
\* yielded exactly one "complete" event, as its last event, after "streaming"
\* events only.
C31_OneCompleteEventLast ==
  /\ StreamCall => pred_pc # "raised" /\ pred_raised = ""
  /\ \A i \in 1..Len(yielded) :
       /\ yielded[i].type \in { "streaming", "complete" }
       /\ yielded[i].type = "complete" => i = Len(yielded) /\ pred_pc = "gen_done"
  /\ (StreamCall /\ pred_pc = "gen_done") => CompleteEvents = { Len(yielded) }

\* a fallback analysis longer than one chunk was streamed and completed
C31_Witness ==
  /\ StreamCall
  /\ pred_pc = "gen_done"
  /\ Len(yielded) = 4
  /\ yielded[3].streaming_type = "writing"
  /\ Len(yielded[3].partial_content) > chunk_size
  /\ yielded[4].type = "complete"
  /\ response = << >>

\* ---- events of the graph runner
EventsOf(t) == emitted[t]

\* C32: every event carries the run id of the run whose execution produced
\* it, also when /start or /resume arrives while an earlier task still runs.
C32_EventCarriesOwnRunId ==
  \A t \in TaskIds : \A i \in 1..Len(EventsOf(t)) :
    EventsOf(t)[i].run_id = tasks[t].run_id

\* C33: once /stop has returned, and until the next /start or /resume, no
\* stream task of the server is still running.
C33_NothingRunsAfterStop ==
  stopped => \A t \in TaskIds : tasks[t].pc \notin {"start", "loop", "check"}

\* C34: /stop answers with status "stopped" in every state of the server.
C34_StopAlwaysSucceeds ==
  http.endpoint = "/stop" => http.status = 200

ClosingTypes == {"node_end", "interrupt", "error"}
IsUpdate(e) == e.type = "node_update"
NodeOf(e) == e.node
NodesOf(evs) == [i \in 1..Len(evs) |-> NodeOf(evs[i])]
ClosingOf(p) ==
  CASE p = "finished" -> "node_end"
    [] p = "paused" -> "interrupt"
    [] p = "raised" -> "error"
    [] OTHER -> ""

\* C35: an execution that is not cancelled emits node_start first, then the
\* node_update events in the order the graph produced the nodes, and ends
\* with exactly one closing event that matches how it ended (node_end,
\* interrupt or error); nothing follows the closing event.
C35_OneClosingEventLast ==
  \A t \in TaskIds :
    tasks[t].pc \notin {"cancelling", "cancelled"} =>
      LET ev == EventsOf(t)
          n == Len(ev)
          p == tasks[t].pc
      IN /\ (p = "start") <=> (n = 0)
         /\ \A i \in 1..n : (ev[i].type = "node_start") <=> (i = 1)
         /\ \A i \in 1..n : ev[i].type \in ClosingTypes => i = n
         /\ \A i \in 2..n : ev[i].type \notin ClosingTypes => IsUpdate(ev[i])
         /\ NodesOf(SelectSeq(ev, IsUpdate)) = tasks[t].produced
         /\ p \in {"finished", "paused", "raised"} =>
              n > 1 /\ ev[n].type = ClosingOf(p)
         /\ p \in {"loop", "check"} =>
              \A i \in 1..n : ev[i].type \notin ClosingTypes

\* two executions side by side: one paused after two updates, one finished
C35_Witness ==
  \E t, u \in TaskIds :
    /\ tasks[t].pc = "paused" /\ Len(tasks[t].produced) = MaxUpdates
    /\ tasks[t].produced[1] # tasks[t].produced[2]
    /\ tasks[u].pc = "finished" /\ Len(tasks[u].produced) > 0

\* ---- the final output
StreamTexts == TextsOf(SelectSeq(events, IsText))
NonBlankTexts == { k \in 1..Len(StreamTexts) : Strip(StreamTexts[k]) # << >> }
LastStreamText == StreamTexts[CHOOSE k \in NonBlankTexts : \A j \in NonBlankTexts : j <= k]

\* the output of a report is what the loop read last: the last non-blank
\* text among the blocks the stream delivered up to the block being handled
OutputIsLastTextRead(r) ==
  /\ r.finalOutput # << >>
  /\ NonBlankTexts # {}
  /\ r.finalOutput = Strip(LastStreamText)

\* C36: a Completed report carries a non-empty finalOutput, the trimmed text
\* of the last non-blank text block of the stream (no later non-blank text
\* block of the stream was passed over); a stream without a non-blank text
\* block never ends in Completed.
C36_CompletedWithLastNonBlankText ==
  \A i \in 1..Len(reports) :
    reports[i].phase = "Completed" =>
      OutputIsLastTextRead(reports[i]) /\ ~dropped_text

\* ---- commands that run out of time
TimedOut == proc.state \in {"killed", "gone"}

\* C37: in both execution modes, a command that does not finish within its
\* timeout is killed and waited for before the result is returned, and the
\* result has success false and exit code -1.
C37_TimedOutKilledAndReported ==
  (mcp_pc = "exec_done" /\ TimedOut) =>
    /\ proc.state = "killed"
    /\ proc.waited
    /\ exec_results[1].success = FALSE
    /\ exec_results[1].exit_code = -1

\* ---- contextual data of an RFE
ContextReturned ==
  /\ svc_call = "get_contextual_data_for_rfe"
  /\ svc_ret # << >>
  /\ "successful_sources" \in DOMAIN svc_ret[1].summary

\* C38: the sources are isolated from each other: every queried source that
\* answered or failed in time has its result recorded in data_sources,
\* whatever another source did (fail, or be slow), and
\* summary.successful_sources is exactly the set of recorded sources whose
\* result has success true.
C38_SourcesIsolated ==
  ContextReturned =>
    LET recorded == svc_ret[1].data_sources
        queried == { t \in DataTypes :
                       /\ svc_args.health[ServerOf(t)]
                       /\ t = "github_repo" => svc_args.has_repo }
    IN  /\ \A t \in queried :
             svc_args.outcome[t] # "slow" =>
               /\ t \in DOMAIN recorded
               /\ (recorded[t].success = "True") <=> (svc_args.outcome[t] = "answers")
        /\ svc_ret[1].summary.successful_sources =
             { k \in DOMAIN recorded : recorded[k].success = "True" }

\* ---- close
CloseStep == svc_call' = "close"

\* C39: close() leaves the service disconnected with an empty status map,
\* whether the disconnect returned, raised or timed out; on a service that is
\* not connected it calls no disconnect and changes neither the flag nor the
\* map.
C39_CloseLeavesDisconnected ==
  [][CloseStep =>
       /\ ~svc_connected'
       /\ svc_status' = << >>
       /\ svc_connected => svc_args'.disconnect \in DisconnectOutcomes
       /\ ~svc_connected =>
            /\ svc_args'.disconnect = "not called"
            /\ svc_status' = svc_status]_vars

\* close() on a connected service with a status map, its disconnect timing out
C39_Witness ==
  /\ svc_call = "close"
  /\ svc_args.disconnect = "times out"
  /\ ~svc_connected
  /\ svc_status = << >>

====
